---- MODULE Spec2Model ----
(***************************************************************************)
(* A model of the syscall-filtering sandbox src/box/box.c: the syscall     *)
(* policy (valid_syscall), the path policy (match_path_rule,               *)
(* resolv_filename, valid_filename) and the keeper loop (boxkeeper, err,   *)
(* die, box_exit).                                                         *)
(*                                                                         *)
(* C strings are sequences of one-character strings; the terminating NUL   *)
(* is the element NUL.  Machine words keep their width: a word is the      *)
(* sequence of its 16-bit limbs.                                           *)
(***************************************************************************)
EXTENDS Integers, Sequences, FiniteSets, TLC

VARIABLES
  cfg,    \* the options of the run: the globals main() sets from the command
          \* line (box.c:45-55, 239, 431) and the build configuration
  g,      \* the keeper's globals and function statics (box.c:57-66, 1126, 1138)
  kpc,    \* where the keeper is: "top", "wait4", "box_exit", "reap", "exited",
          \* "crashed"
  meta,   \* the meta file: the sequence of entries written by meta_printf
  child,  \* the traced child as the kernel holds it
  last,   \* history: how the keeper handled the latest wait4 status
  treat,  \* history: how each syscall-stop so far was treated (entry / exit)
  fin,    \* input of the pure function under check (a record), or NoVal
  fout    \* the sequence of results of applying it

kvars == <<cfg, g, kpc, meta, child, last, treat>>
fvars == <<fin, fout>>
vars == <<cfg, g, kpc, meta, child, last, treat, fin, fout>>

NoVal == "none"

(***************************************************************************)
(* Bounds of the model.                                                    *)
(***************************************************************************)
MaxPathLen == 6     \* longest path given to resolv_filename
MaxRuleLen == 4     \* longest pattern / path given to match_path_rule

(***************************************************************************)
(* enum action (box.c:227-237)                                             *)
(***************************************************************************)
A_DEFAULT == 0
A_NO == 1
A_YES == 2
A_FILENAME == 3
A_ACTION_MASK == 15
A_NO_RETVAL == 32
A_SAMPLE_MEM == 64
A_LIBERAL == 128

\* x & m for a single-bit mask m
HasBit(x, m) == (x \div m) % 2 = 1
\* x & A_ACTION_MASK
ActionOf(x) == x % (A_ACTION_MASK + 1)

(***************************************************************************)
(* C strings                                                               *)
(***************************************************************************)
NUL == "NUL"
\* s[i] of a NUL-terminated string held in the sequence s (0-based)
At(s, i) == IF i < Len(s) THEN s[i + 1] ELSE NUL
StringsUpTo(alpha, n) == UNION {[1..k -> alpha] : k \in 0..n}

(***************************************************************************)
(* match_path_rule (box.c:460-474).  rr and path are kept as offsets into  *)
(* the pattern pat and the path p.  The loop compares *rr++ with *path++;  *)
(* on a mismatch it leaves the loop when the pattern character was '/' and *)
(* the path character was the NUL, and returns A_DEFAULT otherwise.        *)
(***************************************************************************)
RECURSIVE MatchLoop(_, _, _, _)
MatchLoop(pat, p, act, k) ==
  IF At(pat, k) = NUL
    THEN \* loop left normally: rr = pat + k, path = p + k
         IF k > 0 /\ At(pat, k - 1) # "/" /\ At(p, k) # NUL
           THEN A_DEFAULT ELSE act
    ELSE IF At(pat, k) # At(p, k)
           THEN IF At(pat, k) = "/" /\ At(p, k) = NUL
                  THEN \* break: rr[-1] = '/', so the test after the loop fails
                       act
                  ELSE A_DEFAULT
           ELSE MatchLoop(pat, p, act, k + 1)

match_path_rule(r, path) == MatchLoop(r.path, path, r.action, 0)

(***************************************************************************)
(* resolv_filename (box.c:777-817), in place on the buffer b, which holds  *)
(* the name followed by its NUL.                                           *)
(***************************************************************************)
S_START == "S_START"
S_CONT == "S_CONT"

\* the unwinding of ".." without its scan: j -= 2 only
ScanBackNone(b, j) == j

\* for ( ; namebuf[j] != '/'; j--);
RECURSIVE ScanBack(_, _)
ScanBack(b, j) == IF b[j + 1] = "/" THEN j ELSE ScanBack(b, j - 1)

Put(b, j, c) == [b EXCEPT ![j + 1] = c]

RECURSIVE ResolvLoop(_, _, _, _)
ResolvLoop(b, i, j, st) ==
  LET tmp == b[i + 1] IN
  IF tmp = NUL THEN SubSeq(Put(b, j, NUL), 1, j)
  ELSE IF tmp = "/"
    THEN IF st = S_CONT
           THEN ResolvLoop(Put(b, j, tmp), i + 1, j + 1, S_START)
           ELSE ResolvLoop(b, i + 1, j, st)
  ELSE IF tmp = "."
    THEN IF st = S_START /\ b[i + 2] = "."
            /\ (b[i + 3] = "/" \/ b[i + 3] = NUL)
           THEN IF j > 1
                  THEN ResolvLoop(b, i + 2, ScanBack(b, j - 2), S_CONT)
                  ELSE ResolvLoop(b, i + 2, j, S_START)
           ELSE ResolvLoop(Put(b, j, tmp), i + 1, j + 1, S_CONT)
  ELSE ResolvLoop(Put(b, j, tmp), i + 1, j + 1, S_CONT)

resolv_filename(name) ==
  IF At(name, 0) # "/" THEN name
  ELSE ResolvLoop(Append(name, NUL), 0, 0, S_CONT)

(***************************************************************************)
(* Build configurations (box.c:33-39, 613-617, 643, 696-702, 732):         *)
(*   K64U64  CONFIG_BOX_KERNEL_AMD64 and CONFIG_BOX_USER_AMD64             *)
(*   K64U32  CONFIG_BOX_KERNEL_AMD64 only (32-bit programs, 64-bit kernel) *)
(*   K32U32  neither                                                       *)
(***************************************************************************)
Builds == {"K64U64", "K64U32", "K32U32"}
Kernel64(b) == b \in {"K64U64", "K64U32"}
User64(b) == b = "K64U64"

(***************************************************************************)
(* Machine words.  A word is the sequence of its 16-bit limbs, the least   *)
(* significant first: two limbs for a 32-bit type (unsigned int, int,      *)
(* uint32_t), four for uint64_t.                                           *)
(***************************************************************************)
LimbMod == 65536
UIntLimbs == 2

\* the n-limb word of a number 0 <= x < 2^31
Word(n, x) == [i \in 1..n |-> IF i = 1 THEN x % LimbMod
                              ELSE IF i = 2 THEN x \div LimbMod ELSE 0]
\* (unsigned int) x for a number x
UInt(x) == Word(UIntLimbs, x)

\* arg_t (box.c:613-617): uint64_t on a 64-bit kernel build, else uint32_t
ArgLimbs(b) == IF Kernel64(b) THEN 4 ELSE 2
\* (arg_t) x for a number x
ArgT(b, x) == Word(ArgLimbs(b), x)
\* ~(arg_t)0
AllOnes(b) == [i \in 1..ArgLimbs(b) |-> LimbMod - 1]
\* the arg_t 2^32 + x, where arg_t has 64 bits
Above32(b, x) == [ArgT(b, x) EXCEPT ![3] = 1]
\* no word: the value of a register nobody has looked at
NoWord == << >>

(***************************************************************************)
(* Syscall numbers __NR_x of <asm/unistd.h>: the 64-bit ABI for a          *)
(* CONFIG_BOX_USER_AMD64 build, the 32-bit ABI otherwise.  The model       *)
(* carries one or two syscalls of every class of the table.                *)
(***************************************************************************)
NR64 == [read |-> 0, open |-> 2, rt_sigreturn |-> 15, clone |-> 56,
         fork |-> 57, vfork |-> 58, execve |-> 59, exit |-> 60, wait4 |-> 61,
         kill |-> 62, unlink |-> 87, sysinfo |-> 99, times |-> 100,
         time |-> 201, tgkill |-> 234]
NR32 == [read |-> 3, open |-> 5, rt_sigreturn |-> 173, clone |-> 120,
         fork |-> 2, vfork |-> 190, execve |-> 11, exit |-> 1, wait4 |-> 114,
         kill |-> 37, unlink |-> 10, sysinfo |-> 116, times |-> 43,
         time |-> 13, tgkill |-> 270]
SysNames == DOMAIN NR64
NR(b, name) == IF User64(b) THEN NR64[name] ELSE NR32[name]

\* NATIVE_NR_execve (box.c:33-39): the 64-bit execve on every 64-bit kernel
NATIVE_NR_execve(b) == IF Kernel64(b) THEN NR64["execve"] ELSE NR32["execve"]

\* ARRAY_SIZE(syscall_names) (box.c:221-224); syscall-table.h is generated
\* from the kernel headers at build time, one slot per syscall number.
NUM_SYSCALLS == 338
NUM_ACTIONS == NUM_SYSCALLS + 64

(***************************************************************************)
(* syscall_action[] as initialised (box.c:239-349), by syscall name.       *)
(***************************************************************************)
InitialAction(name) ==
  CASE name \in {"open", "unlink"} -> A_FILENAME
    [] name = "exit" -> A_YES + A_SAMPLE_MEM
    [] name = "read" -> A_YES
    [] name = "time" -> A_YES + A_LIBERAL
    [] name = "rt_sigreturn" -> A_YES + A_LIBERAL + A_NO_RETVAL
    [] OTHER -> A_DEFAULT

\* the initial entry of slot n
InitialEntry(b, n) ==
  IF \E name \in SysNames : NR(b, name) = n
    THEN InitialAction(CHOOSE name \in SysNames : NR(b, name) = n)
    ELSE A_DEFAULT

\* The options that write the table, each a sequence of assignments
\* [sys, act] (syscall_action[sys] = act): -s (set_syscall_action,
\* box.c:382-407), -F (box.c:1338-1343) and -T (box.c:1373-1375).
OptionS(sys, act) == << [sys |-> sys, act |-> act] >>
OptionF(b) == << [sys |-> NR(b, "fork"), act |-> A_YES],
                 [sys |-> NR(b, "vfork"), act |-> A_YES],
                 [sys |-> NR(b, "clone"), act |-> A_YES],
                 [sys |-> NR(b, "wait4"), act |-> A_YES] >>
OptionT(b) == << [sys |-> NR(b, "times"), act |-> A_YES] >>

\* syscall_action[n] once main() has processed the assignments opts[1..k]:
\* the latest assignment to slot n, else the initial entry
RECURSIVE TableEntry(_, _, _, _)
TableEntry(b, opts, k, n) ==
  IF k = 0 THEN InitialEntry(b, n)
  ELSE IF opts[k].sys = n THEN opts[k].act
  ELSE TableEntry(b, opts, k - 1, n)

syscall_action(c, n) == TableEntry(c.build, c.syscall_opts, Len(c.syscall_opts), n)

(***************************************************************************)
(* Path rules (box.c:411-432).  A rule is [path, action].                  *)
(***************************************************************************)
default_path_rules ==
  << [path |-> <<"/", "e", "t", "c", "/">>, action |-> A_YES],
     [path |-> <<"/", "l", "i", "b", "/">>, action |-> A_YES],
     [path |-> <<"/", "u", "s", "r", "/", "l", "i", "b", "/">>, action |-> A_YES],
     [path |-> <<"/", "o", "p", "t", "/", "l", "i", "b", "/">>, action |-> A_YES],
     [path |-> <<"/", "u", "s", "r", "/", "s", "h", "a", "r", "e", "/",
                 "z", "o", "n", "e", "i", "n", "f", "o", "/">>, action |-> A_YES],
     [path |-> <<"/", "u", "s", "r", "/", "s", "h", "a", "r", "e", "/",
                 "l", "o", "c", "a", "l", "e", "/">>, action |-> A_YES],
     [path |-> <<"/", "d", "e", "v", "/", "n", "u", "l", "l">>, action |-> A_YES],
     [path |-> <<"/", "d", "e", "v", "/", "z", "e", "r", "o">>, action |-> A_YES],
     [path |-> <<"/", "p", "r", "o", "c", "/", "m", "e", "m", "i", "n", "f", "o">>,
      action |-> A_YES],
     [path |-> <<"/", "p", "r", "o", "c", "/", "s", "e", "l", "f", "/",
                 "s", "t", "a", "t">>, action |-> A_YES],
     [path |-> <<"/", "p", "r", "o", "c", "/", "s", "e", "l", "f", "/",
                 "e", "x", "e">>, action |-> A_YES] >>

\* the test for ".." left out
NoDotDot(s) == FALSE

\* strstr(s, "..") and strchr(s, '/')
HasDotDot(s) == \E k \in 1..(Len(s) - 1) : s[k] = "." /\ s[k + 1] = "."
HasSlash(s) == \E k \in 1..Len(s) : s[k] = "/"

\* the scan without "&& !act": a later rule that matches overrides
RECURSIVE ScanRulesLast(_, _, _, _)
ScanRulesLast(rules, k, name, act) ==
  IF k > Len(rules) THEN act
  ELSE LET m == match_path_rule(rules[k], name)
       IN  ScanRulesLast(rules, k + 1, name, IF m # A_DEFAULT THEN m ELSE act)

\* for (r = rules; r && !act; r = r->next) act = match_path_rule(r, name)
RECURSIVE ScanRules(_, _, _, _)
ScanRules(rules, k, name, act) ==
  IF k > Len(rules) \/ act # A_DEFAULT THEN act
  ELSE ScanRules(rules, k + 1, name, match_path_rule(rules[k], name))

(***************************************************************************)
(* valid_filename (box.c:819-876).  rd is what the read loop of lines      *)
(* 829-849 obtains from the child's memory at addr:                        *)
(*   [kind |-> "name", name |-> s]  a NUL-terminated name s                *)
(*   [kind |-> "toolong"]           no NUL within the buffer    (FA)       *)
(*   [kind |-> "eof"]               read() returned 0           (FA)       *)
(*   [kind |-> "error"]             read() failed               (die)      *)
(* The result is "ok" when the function returns, "FA" when it calls err    *)
(* and "die" when it calls die.                                            *)
(***************************************************************************)
\* the decision of the rules when level 3 consults the built-in rules only
RulesActionBuiltinOnly(fa, rules, name) ==
  LET resolved == resolv_filename(name)
      act0 == IF HasDotDot(resolved) THEN A_NO ELSE A_DEFAULT
  IN  IF fa >= 3 THEN ScanRules(default_path_rules, 1, resolved, act0)
      ELSE ScanRules(rules, 1, resolved, act0)

RulesAction(fa, rules, name) ==
  LET resolved == resolv_filename(name)
      act0 == IF HasDotDot(resolved) THEN A_NO ELSE A_DEFAULT
      act1 == ScanRules(rules, 1, resolved, act0)
  IN  IF fa >= 3 THEN ScanRules(default_path_rules, 1, resolved, act1)
      ELSE act1

\* valid_filename without the test of lines 855-856 for a name in the
\* current directory
valid_filename_rules_only(fa, rules, rd) ==
  IF fa = 0 THEN "FA"
  ELSE IF fa >= 9 THEN "ok"
  ELSE IF rd.kind = "error" THEN "die"
  ELSE IF rd.kind \in {"toolong", "eof"} THEN "FA"
  ELSE IF fa >= 4 THEN "ok"
  ELSE IF RulesAction(fa, rules, rd.name) # A_YES THEN "FA"
  ELSE "ok"

valid_filename(fa, rules, rd) ==
  IF fa = 0 THEN "FA"
  ELSE IF fa >= 9 THEN "ok"
  ELSE IF rd.kind = "error" THEN "die"
  ELSE IF rd.kind \in {"toolong", "eof"} THEN "FA"
  ELSE IF fa >= 4 THEN "ok"
  ELSE IF fa >= 2 /\ ~HasSlash(rd.name) /\ rd.name # <<".", ".">> THEN "ok"
  ELSE IF RulesAction(fa, rules, rd.name) # A_YES THEN "FA"
  ELSE "ok"

(***************************************************************************)
(* valid_syscall (box.c:879-922).  a is the decoded struct syscall_args.   *)
(* The result is a record:                                                 *)
(*   [kind |-> "ret", act |-> n]   returns n (-1: invalid)                 *)
(*   [kind |-> "err", status, lines]  calls err after writing lines        *)
(*   [kind |-> "die"]                 calls die                            *)
(***************************************************************************)
\* unsigned int sys = a->sys;
TruncSys(sys) == SubSeq(sys, 1, UIntLimbs)

\* sys < NUM_ACTIONS for an unsigned int sys, and sys as an index then
Below(sys, n) == sys[2] = 0 /\ sys[1] < n
Index(sys) == sys[1]

\* the lookup with A_LIBERAL honoured at every level
EffectiveActAnyLevel(c, sys) ==
  IF Below(sys, NUM_ACTIONS) THEN syscall_action(c, Index(sys)) ELSE A_DEFAULT

\* the action byte looked up for sys, LIBERAL honoured only at level 1
EffectiveAct(c, sys) ==
  LET act == IF Below(sys, NUM_ACTIONS) THEN syscall_action(c, Index(sys))
             ELSE A_DEFAULT
  IN  IF HasBit(act, A_LIBERAL) /\ c.filter_syscalls # 1 THEN A_DEFAULT ELSE act

\* (int) x for an arg_t x
ToInt(x) ==
  IF x[2] >= LimbMod \div 2 THEN (x[2] - LimbMod) * LimbMod + x[1]
  ELSE x[2] * LimbMod + x[1]

Ret(act) == [kind |-> "ret", act |-> act]
\* meta_printf (box.c:95-105): one entry "key:value", nl: it ends in '\n'
MetaEntry(key, val, num, nl) == [key |-> key, val |-> val, num |-> num, nl |-> nl]
\* the test of arg1 against box_pid left out: every kill is treated alike
SuicideAsForbidden(sig) == Ret(-1)

Suicide(sig) ==
  [kind |-> "err", status |-> "SG",
   lines |-> << MetaEntry("exitsig", "", ToInt(sig), TRUE) >>]

\* a valid_syscall that accepts every call
AcceptAll(c, box_pid, a, rd) == Ret(A_YES)

valid_syscall(c, box_pid, a, rd) ==
  LET sys == TruncSys(a.sys)
      act == EffectiveAct(c, sys)
  IN  CASE ActionOf(act) = A_YES -> Ret(act)
        [] ActionOf(act) = A_NO -> Ret(-1)
        [] ActionOf(act) = A_FILENAME ->
             LET v == valid_filename(c.file_access, c.user_path_rules, rd)
             IN  IF v = "ok" THEN Ret(act)
                 ELSE IF v = "FA" THEN [kind |-> "err", status |-> "FA", lines |-> << >>]
                 ELSE [kind |-> "die"]
        [] OTHER ->
             IF sys = UInt(NR(c.build, "kill")) THEN
               IF a.arg1 = ArgT(c.build, box_pid) THEN Suicide(a.arg2) ELSE Ret(-1)
             ELSE IF sys = UInt(NR(c.build, "tgkill")) THEN
               IF a.arg1 = ArgT(c.build, box_pid) /\ a.arg2 = ArgT(c.build, box_pid)
                 THEN Suicide(a.arg3)
               ELSE Ret(-1)
             ELSE Ret(-1)

(***************************************************************************)
(* The keeper.  Its procedures are written as functions from a working     *)
(* state W = [g, meta, ops, kpc, child] to the working state they leave;   *)
(* ops is the sequence of calls made while handling the latest wait4       *)
(* status.  The run is one with a meta file (-M).                          *)
(***************************************************************************)
BoxPid == 7          \* the pid fork() returned for the child
MaxStops == 4        \* wait4 statuses handled in a run
MaxMs == 2           \* largest time value, in ms
MaxPeak == 1         \* largest VmPeak value, in KB
MaxDieDepth == 1     \* nested die() calls before the /proc read succeeds

\* signal numbers of <signal.h>
SIGINT == 2
SIGTRAP == 5
SIGSYSTRAP == 133    \* SIGTRAP | 0x80
SIGKILL == 9
SIGUSR1 == 10
SIGTERM == 15
SIGSTOP == 19
SIGXCPU == 24
SIGXFSZ == 25

\* get_syscall_args (box.c:671-689): code segments and instruction codes
CS_32 == 35          \* 0x23
CS_64 == 51          \* 0x33
CS_OTHER == 16       \* 0x10, a selector that is neither
INSTR_SYSCALL == 1295   \* 0x050f
INSTR_INT80 == 32973    \* 0x80cd
INSTR_SYSENTER == 13327 \* 0x340f, another instruction

OpRec(op, arg) == [op |-> op, arg |-> arg]
Did(W, op, arg) == [W EXCEPT !.ops = Append(@, OpRec(op, arg))]

meta_printf(W, key, val, num, nl) ==
  [W EXCEPT !.meta = Append(@, MetaEntry(key, val, num, nl)),
            !.ops = Append(@, OpRec("meta", key))]

\* final_stats (box.c:107-120); t and w are the times computed from the
\* rusage of wait4 and from gettimeofday
final_stats(W, t, w) ==
  LET W1 == [W EXCEPT !.g.total_ms = t, !.g.wall_ms = w]
      W2 == meta_printf(W1, "time", "", t, TRUE)
      W3 == meta_printf(W2, "time-wall", "", w, TRUE)
  IN  meta_printf(W3, "mem", "", W.g.mem_peak_kb * 1024, TRUE)

(***************************************************************************)
(* read_proc_file (box.c:941-959) on the static descriptor fd.  in says    *)
(* what the system calls do: in.open_ok, in.read in "ok", "fail" (read     *)
(* returns -1), "long" (PROC_BUF_SIZE-1 bytes or more).  Result: the       *)
(* descriptor left in the static, and whether the function returned        *)
(* (otherwise it called die).                                              *)
(***************************************************************************)
read_proc_file(fd, in) ==
  LET fd1 == IF fd = 0 THEN (IF in.open_ok THEN 3 ELSE -1) ELSE fd
  IN  IF fd = 0 /\ fd1 < 0 THEN [fd |-> fd1, ok |-> FALSE]
      ELSE IF fd1 < 0 \/ in.read # "ok" THEN [fd |-> fd1, ok |-> FALSE]
      ELSE [fd |-> fd1, ok |-> TRUE]

ProcInputs ==
  {[open_ok |-> FALSE, read |-> "ok", val |-> 0]}
    \cup {[open_ok |-> TRUE, read |-> r, val |-> 0] : r \in {"fail"}}
    \cup {[open_ok |-> TRUE, read |-> "ok", val |-> v] : v \in 0..MaxPeak}
ProcDefault == [open_ok |-> TRUE, read |-> "ok", val |-> 0]

\* the assignment of line 1040 without the test of line 1039
Latest(x, y) == y

Max(x, y) == IF x > y THEN x ELSE y

\* die (box.c:159-171) up to its call of box_exit(2); its one meta_printf
\* writes the two lines status:XX and message:...
die(W) ==
  LET W1 == meta_printf(W, "status", "XX", 0, TRUE)
      W2 == meta_printf(W1, "message", "", 0, TRUE)
  IN  [Did(W2, "call", "box_exit") EXCEPT !.kpc = "box_exit", !.g.rc = 2]

\* err (box.c:174-191) up to its call of box_exit(1); every message the
\* program passes starts with a status code
err(W, status) ==
  LET W1 == meta_printf(W, "status", status, 0, TRUE)
      W2 == meta_printf(W1, "message", "", 0, TRUE)
  IN  [Did(W2, "call", "box_exit") EXCEPT !.kpc = "box_exit", !.g.rc = 1]

\* the sample left out
sample_mem_peak_skip(W, in) == W

\* sample_mem_peak (box.c:1003-1046); in.val is the VmPeak line read (0: the
\* file has no such line).  A failing read_proc_file calls die.  The value
\* read is kept in the record of operations.
sample_mem_peak(W, in) ==
  LET r == read_proc_file(W.g.proc_status_fd, in)
      W1 == Did([W EXCEPT !.g.proc_status_fd = r.fd], "call", "sample_mem_peak")
  IN  IF ~r.ok THEN die(W1)
      ELSE Did([W1 EXCEPT !.g.mem_peak_kb = Max(@, in.val)],
               "VmPeak", ToString(in.val))

(***************************************************************************)
(* box_exit (box.c:124-148) up to its wait4: with a child, the sample, the *)
(* three kill requests and killed:1; without, meta_close and exit.  When   *)
(* the sample fails, die has written its status and box_exit(2) is to run  *)
(* again, one call deeper.                                                 *)
(***************************************************************************)
box_exit(W, rc, in) ==
  IF W.g.box_pid > 0 THEN
    IF ~read_proc_file(W.g.proc_status_fd, in).ok
      THEN [sample_mem_peak(W, in) EXCEPT !.g.die_depth = @ + 1]
      ELSE LET W1 == sample_mem_peak(W, in)
               W2 == IF W.g.is_ptraced = 1 THEN Did(W1, "ptrace", "PTRACE_KILL")
                     ELSE W1
               W3 == Did(W2, "kill", "group")
               W4 == Did(W3, "kill", "pid")
               W5 == meta_printf(W4, "killed", "1", 0, TRUE)
           IN  [W5 EXCEPT !.kpc = "reap", !.g.rc = rc,
                          !.child.st = IF @ = "zombie" THEN @ ELSE "killed"]
  ELSE [Did(W, "call", "exit") EXCEPT !.kpc = "exited", !.g.rc = rc]

(***************************************************************************)
(* get_syscall_args (box.c:645-716 and 734-744).  r is the register file   *)
(* PTRACE_GETREGS returns (r.ok: the request succeeded) together with the  *)
(* result of reading the two bytes before rip: r.rd is "ok" (r.instr is    *)
(* the instruction code), "short" when read_user_mem did not return 2,     *)
(* "fail" when its open or lseek64 failed.                                 *)
(* Result: [kind |-> "ok", a |-> the syscall_args],                        *)
(* [kind |-> "err", status |-> s] or [kind |-> "die"].                     *)
(***************************************************************************)
Args(sys, a1, a2, a3) == [sys |-> sys, arg1 |-> a1, arg2 |-> a2, arg3 |-> a3]

\* the switch on the code segment (box.c:671-694): the syscall type, or the
\* status of the error raised
SysType(r) ==
  IF r.cs = CS_32 THEN [kind |-> "ok", type |-> 32]
  ELSE IF r.cs = CS_64 THEN
    IF r.rd = "fail" THEN [kind |-> "die"]
    ELSE IF r.rd = "short" THEN [kind |-> "err", status |-> "FO"]
    ELSE IF r.instr = INSTR_SYSCALL THEN [kind |-> "ok", type |-> 64]
    ELSE IF r.instr = INSTR_INT80 THEN [kind |-> "err", status |-> "FO"]
    ELSE [kind |-> "err", status |-> "XX"]
  ELSE [kind |-> "err", status |-> "XX"]

\* the test of the user build only: exec_seen is not looked at
WantedType64(b, seen) == 64

\* the mode a syscall must have (box.c:696-702)
WantedType(b, seen) == IF User64(b) THEN 64 ELSE IF seen THEN 32 ELSE 64

get_syscall_args(b, seen, r, is_exit) ==
  IF ~r.ok THEN [kind |-> "die"]
  ELSE IF ~Kernel64(b) THEN [kind |-> "ok", a |-> Args(r.sys, r.rbx, r.rcx, r.rdx)]
  ELSE IF is_exit THEN [kind |-> "ok", a |-> Args(r.sys, NoWord, NoWord, NoWord)]
  ELSE LET t == SysType(r) IN
       IF t.kind # "ok" THEN t
       ELSE IF t.type # WantedType(b, seen) THEN [kind |-> "err", status |-> "FO"]
       ELSE IF t.type = 32
         THEN [kind |-> "ok", a |-> Args(r.sys, r.rbx, r.rcx, r.rdx)]
         ELSE [kind |-> "ok", a |-> Args(r.sys, r.rdi, r.rsi, r.rdx)]

\* a set_syscall_nr that leaves the register alone
set_syscall_nr_skip(W, sys, ok) == W

\* set_syscall_nr (box.c:718-725, 746-753): the register is written when
\* PTRACE_SETREGS succeeds; on failure die is called
set_syscall_nr(W, sys, ok) ==
  LET W1 == Did(W, "ptrace", "PTRACE_SETREGS")
  IN  IF ok THEN [W1 EXCEPT !.child.sys = sys] ELSE die(W1)

\* ptrace(PTRACE_SYSCALL, box_pid, 0, sig): the child leaves its stop; from
\* a syscall-entry stop the kernel goes on to run the call its
\* syscall-number register names.  A signal that the request forwards is
\* kept in the record of operations, before the request.
Resume(W, sig) ==
  [Did(IF sig # 0 THEN Did(W, "forward", ToString(sig)) ELSE W,
       "ptrace", "PTRACE_SYSCALL") EXCEPT
     !.kpc = "wait4",
     !.child.st = "running",
     !.child.ran = IF W.child.at = "entry" THEN W.child.sys ELSE @]

(***************************************************************************)
(* The syscall-stop branch of boxkeeper (box.c:1133-1193).                 *)
(***************************************************************************)
\* ++x of an unsigned int x
Incr(x) ==
  IF x[1] + 1 < LimbMod THEN [x EXCEPT ![1] = @ + 1]
  ELSE [x EXCEPT ![1] = 0, ![2] = (@ + 1) % LimbMod]
\* x & 1
Odd(x) == x[1] % 2 = 1

\* sys_tick += 2
TickTwice(W) == [W EXCEPT !.g.sys_tick = Incr(Incr(@))]

\* ++sys_tick
Tick(W) == [W EXCEPT !.g.sys_tick = Incr(@)]

\* an entry branch that never comes to valid_syscall: every entry is
\* handled as one before the exec
SyscallEntryAsPreExec(c, W0, r, rd, in, set_ok) ==
  LET W == Did(W0, "ptrace", "PTRACE_GETREGS")
      d == get_syscall_args(c.build, W.g.exec_seen, r, FALSE)
  IN  IF d.kind = "die" THEN die(W)
      ELSE IF d.kind = "err" THEN err(W, d.status)
      ELSE Resume([W EXCEPT !.g.exec_seen = (d.a.sys = ArgT(c.build, NATIVE_NR_execve(c.build))),
                            !.g.last_sys = d.a.sys], 0)

\* Syscall entry (box.c:1140-1172); set_ok: PTRACE_SETREGS succeeds
SyscallEntry(c, W0, r, rd, in, set_ok) ==
  LET W == Did(W0, "ptrace", "PTRACE_GETREGS")
      d == get_syscall_args(c.build, W.g.exec_seen, r, FALSE)
  IN  IF d.kind = "die" THEN die(W)
      ELSE IF d.kind = "err" THEN err(W, d.status)
      ELSE IF ~W.g.exec_seen THEN
        Resume([W EXCEPT !.g.exec_seen = (d.a.sys = ArgT(c.build, NATIVE_NR_execve(c.build))),
                         !.g.last_sys = d.a.sys], 0)
      ELSE LET v == valid_syscall(c, W.g.box_pid, d.a, rd) IN
        IF v.kind = "die" THEN die(W)
        ELSE IF v.kind = "err" THEN
          err(IF v.lines = << >> THEN W
              ELSE meta_printf(W, v.lines[1].key, v.lines[1].val, v.lines[1].num, TRUE),
              v.status)
        ELSE IF v.act >= 0 THEN
          LET W1 == [W EXCEPT !.g.last_act = v.act,
                               !.g.syscall_count = @ + 1]
              W2 == IF HasBit(v.act, A_SAMPLE_MEM) THEN sample_mem_peak(W1, in)
                    ELSE W1
          IN  IF W2.kpc = "box_exit" THEN W2
              ELSE Resume([W2 EXCEPT !.g.last_sys = d.a.sys], 0)
        ELSE LET W1 == set_syscall_nr(W, AllOnes(c.build), set_ok)
             IN  IF W1.kpc = "box_exit" THEN W1 ELSE err(W1, "FO")

\* the syscall return without the tests of lines 1176-1186
SyscallExitUnchecked(c, W0, r) ==
  LET W == Did(W0, "ptrace", "PTRACE_GETREGS")
      d == get_syscall_args(c.build, W.g.exec_seen, r, TRUE)
  IN  IF d.kind = "die" THEN die(W) ELSE Resume(W, 0)

\* Syscall return (box.c:1173-1192)
SyscallExit(c, W0, r) ==
  LET W == Did(W0, "ptrace", "PTRACE_GETREGS")
      d == get_syscall_args(c.build, W.g.exec_seen, r, TRUE)
  IN  IF d.kind = "die" THEN die(W)
      ELSE IF d.a.sys = AllOnes(c.build) THEN
        IF ~HasBit(W.g.last_act, A_NO_RETVAL) THEN err(W, "XX") ELSE Resume(W, 0)
      ELSE IF d.a.sys # W.g.last_sys THEN err(W, "XX")
      ELSE Resume(W, 0)

(***************************************************************************)
(* The other branches of the loop of boxkeeper (box.c:1072-1215).          *)
(***************************************************************************)
\* the exit branch with the time limits tested before the exit code
ExitedTimeFirst(c, W0, code, t, w) ==
  LET W == final_stats([W0 EXCEPT !.g.box_pid = 0], t, w)
  IN  IF c.timeout # 0 /\ W.g.total_ms > c.timeout THEN err(W, "TO")
      ELSE IF c.wall_timeout # 0 /\ W.g.wall_ms > c.wall_timeout THEN err(W, "TO")
      ELSE IF code # 0 THEN err(meta_printf(W, "exitcode", "", code, TRUE), "RE")
      ELSE [Did(W, "call", "box_exit") EXCEPT !.kpc = "box_exit", !.g.rc = 0]

\* WIFEXITED (box.c:1091-1111)
Exited(c, W0, code, t, w) ==
  LET W == final_stats([W0 EXCEPT !.g.box_pid = 0], t, w)
  IN  IF code # 0 THEN err(meta_printf(W, "exitcode", "", code, TRUE), "RE")
      ELSE IF c.timeout # 0 /\ W.g.total_ms > c.timeout THEN err(W, "TO")
      ELSE IF c.wall_timeout # 0 /\ W.g.wall_ms > c.wall_timeout THEN err(W, "TO")
      ELSE [Did(W, "call", "box_exit") EXCEPT !.kpc = "box_exit", !.g.rc = 0]

\* WIFSIGNALED (box.c:1112-1118)
Signaled(W0, sig, t, w) ==
  LET W == meta_printf([W0 EXCEPT !.g.box_pid = 0], "exitsig", "", sig, TRUE)
  IN  err(final_stats(W, t, w), "SG")

\* stopped by SIGTRAP (box.c:1122-1132)
StopTrap(W) ==
  LET W1 == [W EXCEPT !.g.stop_count = @ + 1]
  IN  IF W.g.stop_count = 0 THEN Resume(W1, 0) ELSE err(W1, "SG")

\* stopped by SIGSTOP (box.c:1194-1200); ok: PTRACE_SETOPTIONS succeeds
StopSigstop(W, ok) ==
  LET W1 == Did(W, "ptrace", "PTRACE_SETOPTIONS")
  IN  IF ok THEN Resume(W1, 0) ELSE die(W1)

\* the stop by a signal answered by a resume request without the signal
StopSignalUnforwarded(W, sig, in) ==
  LET W1 == sample_mem_peak(W, in)
  IN  IF W1.kpc = "box_exit" THEN W1 ELSE Resume(W1, 0)

\* stopped by another signal (box.c:1201-1206)
StopSignal(W, sig, in) ==
  LET W1 == sample_mem_peak(W, in)
  IN  IF W1.kpc = "box_exit" THEN W1 ELSE Resume(W1, sig)

\* stopped by SIGXCPU or SIGXFSZ (box.c:1207-1211)
StopFatal(W, sig) == err(meta_printf(W, "exitsig", "", sig, FALSE), "SG")

(***************************************************************************)
(* check_timeout (box.c:961-1001).  now is the wall time in ms; in is the  *)
(* read of /proc/<pid>/stat, in.val the CPU time in ms it yields,          *)
(* in.read = "syntax": the file does not parse.                            *)
(***************************************************************************)
\* check_timeout without the grace of extra_timeout (line 998)
check_timeout_no_grace(c, W, now, in) ==
  IF c.wall_timeout # 0 /\ now > c.wall_timeout THEN err(W, "TO")
  ELSE IF c.timeout # 0 THEN
    LET r == read_proc_file(W.g.proc_stat_fd, in)
        W1 == Did([W EXCEPT !.g.proc_stat_fd = r.fd], "call", "read_proc_file")
    IN  IF ~r.ok \/ in.read = "syntax" THEN die(W1)
        ELSE IF in.val > c.timeout THEN err(W1, "TO")
        ELSE W1
  ELSE W

check_timeout(c, W, now, in) ==
  IF c.wall_timeout # 0 /\ now > c.wall_timeout THEN err(W, "TO")
  ELSE IF c.timeout # 0 THEN
    LET r == read_proc_file(W.g.proc_stat_fd, in)
        W1 == Did([W EXCEPT !.g.proc_stat_fd = r.fd], "call", "read_proc_file")
    IN  IF ~r.ok \/ in.read = "syntax" THEN die(W1)
        ELSE IF in.val > c.timeout /\ in.val > c.extra_timeout THEN err(W1, "TO")
        ELSE W1
  ELSE W

(***************************************************************************)
(* What the kernel and the child can present to the keeper.                *)
(***************************************************************************)
Regs(ok, sys, cs, rd, instr, rdi, rsi, rdx, rbx, rcx) ==
  [ok |-> ok, sys |-> sys, cs |-> cs, rd |-> rd, instr |-> instr,
   rdi |-> rdi, rsi |-> rsi, rdx |-> rdx, rbx |-> rbx, rcx |-> rcx]
NoRegs == Regs(TRUE, NoWord, 0, "ok", 0, NoWord, NoWord, NoWord, NoWord, NoWord)
NoName == [kind |-> "eof", name |-> << >>]

\* the modes a syscall stop can show: (code segment, read of the
\* instruction, instruction)
GoodModes(b) ==
  IF Kernel64(b) THEN {<<CS_32, "ok", INSTR_SYSCALL>>, <<CS_64, "ok", INSTR_SYSCALL>>}
  ELSE {<<CS_32, "ok", INSTR_SYSCALL>>}
OddModes(b) ==
  IF Kernel64(b)
    THEN {<<CS_64, "ok", INSTR_INT80>>, <<CS_64, "ok", INSTR_SYSENTER>>,
          <<CS_64, "short", 0>>, <<CS_64, "fail", 0>>, <<CS_OTHER, "ok", 0>>}
    ELSE {}

\* syscall numbers the child puts in its syscall-number register
EntryNames ==
  {"read", "unlink", "exit", "time", "rt_sigreturn", "kill", "tgkill",
   "execve", "sysinfo", "fork"}
SysVals(b) ==
  {ArgT(b, NR(b, n)) : n \in EntryNames}
    \cup {ArgT(b, NATIVE_NR_execve(b)), ArgT(b, NUM_ACTIONS), AllOnes(b)}
    \cup (IF Kernel64(b) THEN {Above32(b, NR(b, "read"))} ELSE {})

\* arguments: a pid in the first (kill) or the first two (tgkill) of them,
\* in the registers of both calling conventions
Pids(b) == {ArgT(b, BoxPid), ArgT(b, BoxPid + 1)}
ArgSets(b, sys) ==
  LET zero == ArgT(b, 0)
      term == ArgT(b, SIGTERM)
  IN  IF TruncSys(sys) = UInt(NR(b, "kill"))
        THEN {[rdi |-> x, rbx |-> y, rsi |-> term, rcx |-> term, rdx |-> zero] :
                x \in Pids(b), y \in Pids(b)}
      ELSE IF TruncSys(sys) = UInt(NR(b, "tgkill"))
        THEN {[rdi |-> x, rbx |-> x, rsi |-> y, rcx |-> y, rdx |-> term] :
                x \in Pids(b), y \in Pids(b)}
      ELSE {[rdi |-> zero, rbx |-> zero, rsi |-> zero, rcx |-> zero, rdx |-> zero]}

FailRegs(b) == [NoRegs EXCEPT !.ok = FALSE, !.sys = ArgT(b, 0)]
EntryRegs(b) ==
  {FailRegs(b)}
    \cup UNION {{Regs(TRUE, sys, m[1], m[2], m[3], x.rdi, x.rsi, x.rdx, x.rbx, x.rcx) :
                   x \in ArgSets(b, sys), m \in OddModes(b)} :
                 sys \in {ArgT(b, NR(b, "read")), ArgT(b, NATIVE_NR_execve(b))}}
    \cup UNION {{Regs(TRUE, sys, m[1], m[2], m[3], x.rdi, x.rsi, x.rdx, x.rbx, x.rcx) :
                   x \in ArgSets(b, sys), m \in GoodModes(b)} : sys \in SysVals(b)}

\* names the child passes to a filename-bearing syscall, and the failures
\* of reading one
Names ==
  { <<"a">>, <<".", ".">>, <<"/", "t", "/", "x">>, <<"/", "e", "t", "c", "/", "x">>,
    <<"/", "t", "/", ".", ".", "/", "x">> }
ReadOutcomes ==
  {[kind |-> "name", name |-> n] : n \in Names}
    \cup {[kind |-> k, name |-> << >>] : k \in {"toolong", "eof", "error"}}

StatInputs ==
  {[open_ok |-> FALSE, read |-> "ok", val |-> 0]}
    \cup {[open_ok |-> TRUE, read |-> r, val |-> 0] : r \in {"long", "syntax"}}
    \cup {[open_ok |-> TRUE, read |-> "ok", val |-> v] : v \in 0..MaxMs}

ExitRegs(b, ran) ==
  {FailRegs(b)}
    \cup {[NoRegs EXCEPT !.sys = sys, !.cs = CS_32, !.instr = INSTR_SYSCALL] :
            sys \in {ran, AllOnes(b), ArgT(b, NR(b, "sysinfo"))} \ {NoWord}}

\* before the exec the child is box_inside, which makes few calls
PreExecSys(b) ==
  {ArgT(b, NR(b, "read")), ArgT(b, NR(b, "execve")), ArgT(b, NATIVE_NR_execve(b)),
   AllOnes(b)}

\* one syscall-entry stop: the registers r, the outcome rd of reading a
\* name from the child, the /proc read in of a memory sample, and whether
\* PTRACE_SETREGS works (its failure is drawn for sysinfo)
EntryInputs(b, seen) ==
  UNION {
    { [r |-> r, rd |-> rd, in |-> in, set_ok |-> ok] :
        rd \in (IF seen /\ TruncSys(r.sys) \in {UInt(NR(b, "open")), UInt(NR(b, "unlink"))} /\ r.ok
                  THEN ReadOutcomes ELSE {NoName}),
        in \in (IF seen /\ TruncSys(r.sys) = UInt(NR(b, "exit")) /\ r.ok
                  THEN ProcInputs ELSE {ProcDefault}),
        ok \in (IF seen /\ r.sys = ArgT(b, NR(b, "sysinfo")) /\ r.ok
                  THEN BOOLEAN ELSE {TRUE}) } :
    r \in {q \in EntryRegs(b) : seen \/ q.sys \in PreExecSys(b)} }

ExitInputs(b, ran) ==
  { [r |-> r, rd |-> NoName, in |-> ProcDefault, set_ok |-> TRUE] : r \in ExitRegs(b, ran) }

(***************************************************************************)
(* The actions of the keeper: one per wait4 outcome handled by the loop of *)
(* boxkeeper, one for box_exit, and those of the kernel and the timer.     *)
(***************************************************************************)
\* the working state when wait4 reports a stop of kind at, the
\* syscall-number register of the child holding sys
AtStop(at, sys) ==
  [g |-> g, meta |-> meta, ops |-> << >>, kpc |-> "wait4",
   child |-> [child EXCEPT !.st = "stopped", !.at = at, !.sys = sys,
                           !.ran = IF at = "entry" THEN NoWord ELSE @,
                           !.insys = IF at = "entry" THEN TRUE
                                     ELSE IF at = "exit" THEN FALSE ELSE @]]
\* the working state when wait4 reports the end of the child
AtEnd ==
  [g |-> g, meta |-> meta, ops |-> << >>, kpc |-> "wait4",
   child |-> [child EXCEPT !.st = "reaped"]]

Commit(W, kind, r, rd, num) ==
  /\ g' = W.g
  /\ meta' = W.meta
  /\ kpc' = W.kpc
  /\ child' = W.child
  /\ last' = [n |-> last.n + 1, kind |-> kind, seen |-> g.exec_seen,
              pid |-> g.box_pid, r |-> r, rd |-> rd, num |-> num, ops |-> W.ops]
  /\ UNCHANGED <<cfg, fin, fout>>

Waiting == kpc = "wait4" /\ child.st = "running" /\ last.n < MaxStops

KeeperSyscallStop ==
  /\ Waiting
  /\ cfg.filter_syscalls > 0
  /\ \E x \in (IF child.insys THEN ExitInputs(cfg.build, child.ran)
               ELSE EntryInputs(cfg.build, g.exec_seen)) :
       LET W == Tick(AtStop(IF child.insys THEN "exit" ELSE "entry", x.r.sys))
           entry == Odd(W.g.sys_tick)
       IN  /\ Commit(IF entry THEN SyscallEntry(cfg, W, x.r, x.rd, x.in, x.set_ok)
                     ELSE SyscallExit(cfg, W, x.r),
                     IF entry THEN "entry" ELSE "exit", x.r, x.rd, 0)
           /\ treat' = Append(treat, IF entry THEN "entry" ELSE "exit")

KeeperExited ==
  /\ Waiting
  /\ \E code \in {0, 1},
        t \in (IF cfg.timeout # 0 THEN 0..MaxMs ELSE {0}),
        w \in (IF cfg.wall_timeout # 0 THEN 0..MaxMs ELSE {MaxMs}) :
       Commit(Exited(cfg, AtEnd, code, t, w), "exited", NoRegs, NoName, code)
  /\ UNCHANGED treat

KeeperSignaled ==
  /\ Waiting
  /\ \E sig \in {SIGKILL, SIGTERM}, t \in {0, MaxMs} :
       Commit(Signaled(AtEnd, sig, t, MaxMs), "signaled", NoRegs, NoName, sig)
  /\ UNCHANGED treat

KeeperTrap ==
  /\ Waiting
  /\ cfg.filter_syscalls > 0
  /\ Commit(StopTrap(AtStop("other", child.sys)), "trap", NoRegs, NoName, 0)
  /\ UNCHANGED treat

\* without PTRACE_TRACEME in the child, PTRACE_SETOPTIONS fails
KeeperSigstop ==
  /\ Waiting
  /\ \E ok \in (IF cfg.filter_syscalls > 0 THEN BOOLEAN ELSE {FALSE}) :
       Commit(StopSigstop(AtStop("other", child.sys), ok), "sigstop", NoRegs, NoName, 0)
  /\ UNCHANGED treat

KeeperSignal ==
  /\ Waiting
  /\ cfg.filter_syscalls > 0
  /\ \E sig \in {SIGUSR1}, in \in ProcInputs :
       Commit(StopSignal(AtStop("other", child.sys), sig, in), "signal",
              NoRegs, NoName, sig)
  /\ UNCHANGED treat

KeeperFatalSignal ==
  /\ Waiting
  /\ cfg.filter_syscalls > 0
  /\ \E sig \in {SIGXCPU, SIGXFSZ} :
       Commit(StopFatal(AtStop("other", child.sys), sig), "fatal",
              NoRegs, NoName, sig)
  /\ UNCHANGED treat

\* wait4 fails (not EINTR), returns another pid, or an unknown status
\* (box.c:1080-1086, 1213-1214)
KeeperWaitFail ==
  /\ Waiting
  /\ Commit(die([g |-> g, meta |-> meta, ops |-> << >>, kpc |-> kpc, child |-> child]),
            "waitfail", NoRegs, NoName, 0)
  /\ UNCHANGED treat


Here == [g |-> g, meta |-> meta, ops |-> << >>, kpc |-> kpc, child |-> child]

\* what an asynchronous step of the keeper leaves: the stop counter stays
Leave(W, kind) ==
  /\ g' = W.g
  /\ meta' = W.meta
  /\ kpc' = W.kpc
  /\ child' = W.child
  /\ last' = [n |-> last.n, kind |-> kind, seen |-> g.exec_seen,
              pid |-> g.box_pid, r |-> NoRegs, rd |-> NoName, num |-> 0,
              ops |-> W.ops]
  /\ UNCHANGED <<cfg, treat, fin, fout>>

\* SIGALRM (signal_alarm, box.c:924-930) while the keeper is in wait4, which
\* then fails with EINTR (box.c:1082-1083)
SignalAlarm ==
  /\ kpc = "wait4"
  /\ cfg.timeout # 0 \/ cfg.wall_timeout # 0
  /\ g' = [g EXCEPT !.timer_tick = 1]
  /\ kpc' = "top"
  /\ UNCHANGED <<cfg, meta, child, last, treat, fin, fout>>

\* the top of the loop with timer_tick set (box.c:1075-1079)
KeeperTop ==
  /\ kpc = "top"
  /\ \E now \in (IF cfg.wall_timeout # 0 THEN 0..MaxMs ELSE {0}),
        in \in (IF cfg.timeout # 0 THEN StatInputs ELSE {ProcDefault}) :
       LET W == check_timeout(cfg, [Here EXCEPT !.kpc = "wait4"], now, in)
       IN  Leave(IF W.kpc = "box_exit" THEN W ELSE [W EXCEPT !.g.timer_tick = 0], "tick")

\* SIGINT (signal_int, box.c:932-938)
SignalInt ==
  /\ kpc \in {"wait4", "top"}
  /\ Leave(err(meta_printf(Here, "exitsig", "", SIGINT, TRUE), "SG"), "int")

\* box_exit (box.c:124-148) up to its wait4.  A failing sample calls die,
\* which calls box_exit again
BoxExit ==
  /\ kpc = "box_exit"
  /\ \E in \in (IF g.box_pid > 0 THEN ProcInputs ELSE {ProcDefault}) :
       /\ g.die_depth < MaxDieDepth \/ read_proc_file(g.proc_status_fd, in).ok
       /\ LET W == box_exit([Here EXCEPT !.ops = last.ops], g.rc, in)
          IN  /\ g' = W.g
              /\ meta' = W.meta
              /\ kpc' = W.kpc
              /\ child' = W.child
              /\ last' = [last EXCEPT !.ops = W.ops]
  /\ UNCHANGED <<cfg, treat, fin, fout>>

\* box_exit calling itself through die without end: the static descriptor
\* of /proc/<pid>/status is -1 for good, the stack runs out
KeeperOverflow ==
  /\ kpc = "box_exit"
  /\ g.box_pid > 0
  /\ g.proc_status_fd < 0
  /\ g.die_depth >= MaxDieDepth
  /\ kpc' = "crashed"
  /\ UNCHANGED <<cfg, g, meta, child, last, treat, fin, fout>>

\* The kernel acts on PTRACE_KILL and the two SIGKILLs.  A child stopped at
\* a syscall entry is woken by PTRACE_KILL and may run the call its
\* syscall-number register names before it dies (box.c:1163-1167).
KernelKill ==
  /\ child.st = "killed"
  /\ \E runs \in BOOLEAN :
       /\ runs => child.at = "entry"
       /\ child' = [child EXCEPT !.st = "zombie",
                                 !.ran = IF runs THEN child.sys ELSE @]
  /\ UNCHANGED <<cfg, g, meta, kpc, last, treat, fin, fout>>

\* the wait4 of box_exit and what follows it (box.c:137-147)
ReapTimes == {<<1, MaxMs>>}
BoxExitReap ==
  /\ kpc = "reap"
  /\ child.st = "zombie"
  /\ \E ok \in BOOLEAN, tw \in ReapTimes :
       LET W == IF ok THEN final_stats(Here, tw[1], tw[2]) ELSE Here
       IN  /\ g' = W.g
           /\ meta' = W.meta
           /\ kpc' = "exited"
           /\ child' = [child EXCEPT !.st = IF ok THEN "reaped" ELSE @]
  /\ UNCHANGED <<cfg, last, treat, fin, fout>>

(***************************************************************************)
(* The state when boxkeeper enters its loop.                               *)
(***************************************************************************)
NoRules == << >>
TmpRule == << [path |-> <<"/", "t", "/">>, action |-> A_YES] >>

Cfg(b, f, a, t, w, x, o, u) ==
  [build |-> b, filter_syscalls |-> f, file_access |-> a, timeout |-> t,
   wall_timeout |-> w, extra_timeout |-> x, syscall_opts |-> o,
   user_path_rules |-> u]

\* the command lines of the model: the filter level, the file access
\* level, the limits and the table options each vary on their own
Configs ==
  UNION { {Cfg(b, f, 0, 0, 0, 0, << >>, NoRules) : f \in 0..3}
          : b \in Builds }
    \cup {Cfg("K32U32", 1, a, 0, 0, 0, << >>, u) : a \in {1, 2, 3, 9}, u \in {NoRules, TmpRule}}
    \cup {Cfg("K64U64", 1, 0, l[1], l[2], l[3], << >>, NoRules) :
            l \in {<<1, 0, 0>>, <<0, 1, 0>>, <<1, 1, 2>>}}
    \cup {Cfg("K64U32", 2, 0, 0, 0, 0, o, NoRules) :
            o \in {OptionF("K64U32"), OptionT("K64U32"),
                   OptionS(NR("K64U32", "read"), A_NO),
                   OptionS(NR("K64U32", "kill"), A_YES)}}

InitG(c) ==
  [box_pid |-> BoxPid, is_ptraced |-> 1, exec_seen |-> FALSE, timer_tick |-> 0,
   mem_peak_kb |-> 0, total_ms |-> 0, wall_ms |-> 0, proc_status_fd |-> 0,
   proc_stat_fd |-> 0, stop_count |-> 0, sys_tick |-> UInt(0), last_act |-> 0,
   last_sys |-> ArgT(c.build, 0), syscall_count |-> IF c.filter_syscalls # 0 THEN 0 ELSE 1,
   rc |-> -1, die_depth |-> 0]

Init ==
  /\ cfg \in Configs
  /\ g = InitG(cfg)
  /\ kpc = "wait4"
  /\ meta = << >>
  /\ child = [st |-> "running", at |-> "none", sys |-> NoWord, ran |-> NoWord,
              insys |-> FALSE]
  /\ last = [n |-> 0, kind |-> "none", seen |-> FALSE, pid |-> BoxPid,
             r |-> NoRegs, rd |-> NoName, num |-> 0, ops |-> << >>]
  /\ treat = << >>
  /\ fin = NoVal
  /\ fout = << >>

Next ==
  \/ KeeperSyscallStop
  \/ KeeperExited
  \/ KeeperSignaled
  \/ KeeperTrap
  \/ KeeperSigstop
  \/ KeeperSignal
  \/ KeeperFatalSignal
  \/ KeeperWaitFail
  \/ SignalAlarm
  \/ KeeperTop
  \/ SignalInt
  \/ BoxExit
  \/ KeeperOverflow
  \/ KernelKill
  \/ BoxExitReap

Spec == Init /\ [][Next]_vars


(***************************************************************************)
(* The pure functions of the policy, each under a specification of its     *)
(* own: Init draws the input fin, the action applies the function and      *)
(* appends the result to fout.  The keeper stands still.                   *)
(***************************************************************************)
KeeperIdle ==
  /\ cfg = NoVal
  /\ g = NoVal
  /\ kpc = "idle"
  /\ meta = << >>
  /\ child = NoVal
  /\ last = NoVal
  /\ treat = << >>

\* match_path_rule on every pattern and path over PathChars
PathChars == {"/", "a", "b"}
InitMatch ==
  /\ KeeperIdle
  /\ fin \in [pat : StringsUpTo(PathChars, MaxRuleLen),
              p : StringsUpTo(PathChars, MaxRuleLen),
              act : {A_YES, A_NO}]
  /\ fout = << >>

MatchStep ==
  /\ fout = << >>
  /\ fout' = << match_path_rule([path |-> fin.pat, action |-> fin.act], fin.p) >>
  /\ UNCHANGED <<kvars, fin>>

SpecMatch == InitMatch /\ [][MatchStep]_vars

\* resolv_filename, applied to a name and then to its own result
NameChars == {"/", ".", "a"}
InitResolv ==
  /\ KeeperIdle
  /\ fin \in [name : StringsUpTo(NameChars, MaxPathLen)]
  /\ fout = << >>

ResolvStep ==
  /\ Len(fout) < 2
  /\ fout' = Append(fout, resolv_filename(IF fout = << >> THEN fin.name
                                           ELSE fout[Len(fout)]))
  /\ UNCHANGED <<kvars, fin>>

SpecResolv == InitResolv /\ [][ResolvStep]_vars

\* valid_syscall on one call, at the filter levels 1, 2 and 3 in turn;
\* file_access is 9, where valid_filename accepts without reading a name
MaxLevel == 3
TableOpts(b) ==
  { << >>, OptionF(b), OptionT(b),
    OptionS(NR(b, "time"), A_NO), OptionS(NR(b, "time"), A_YES),
    OptionS(NR(b, "read"), A_FILENAME), OptionS(NR(b, "sysinfo"), A_YES) }
InitSyscall ==
  /\ KeeperIdle
  /\ \E b \in Builds :
       \E o \in TableOpts(b), sys \in SysVals(b) \cup {ArgT(b, NR(b, "times"))} :
         \E x \in ArgSets(b, sys) :
           fin = [c |-> Cfg(b, 0, 9, 0, 0, 0, o, NoRules),
                  a |-> Args(sys, x.rdi, x.rsi, x.rdx)]
  /\ fout = << >>

SyscallStep ==
  /\ Len(fout) < MaxLevel
  /\ fout' = Append(fout, valid_syscall([fin.c EXCEPT !.filter_syscalls = Len(fout) + 1],
                                        BoxPid, fin.a, NoName))
  /\ UNCHANGED <<kvars, fin>>

SpecSyscall == InitSyscall /\ [][SyscallStep]_vars


(***************************************************************************)
(* Properties of the path policy (SpecMatch, SpecResolv).                  *)
(***************************************************************************)
EndsInSlash(s) == Len(s) > 0 /\ s[Len(s)] = "/"
IsPrefix(s, t) == Len(s) <= Len(t) /\ SubSeq(t, 1, Len(s)) = s
\* the pairs of pattern and path C9 lists as matching
ListedMatch(pat, p) ==
  \/ p = pat
  \/ EndsInSlash(pat) /\ IsPrefix(pat, p)
  \/ EndsInSlash(pat) /\ p = SubSeq(pat, 1, Len(pat) - 1)

\* C9: match_path_rule(r, p) returns r.action exactly when p equals the
\* pattern, or the pattern ends in '/' and is a prefix of p, or the pattern
\* ends in '/' and p is the pattern without its final '/'; for every other
\* pair it returns DEFAULT.
C9_MatchesAsListed ==
  fout # << >> =>
    fout[1] = IF ListedMatch(fin.pat, fin.p) THEN fin.act ELSE A_DEFAULT

\* C10: resolv_filename is idempotent on every absolute name: applied to
\* its own result it returns that result.
C10_Idempotent ==
  (Len(fout) = 2 /\ At(fin.name, 0) = "/") => fout[2] = fout[1]

\* an absolute name with a ".." that was unwound, resolved twice
C10_Witness ==
  /\ Len(fout) = 2
  /\ At(fin.name, 0) = "/"
  /\ HasDotDot(fin.name)
  /\ fout[1] # fin.name
  /\ fout[1] # << >>

(***************************************************************************)
(* Properties of the syscall policy (SpecSyscall).                         *)
(***************************************************************************)
\* valid_syscall returned an action: the call is permitted
Permitted(v) == v.kind = "ret" /\ v.act >= 0

\* the number, at the full width of the register, is an index of the table
InTable(sys) ==
  /\ \A i \in 2..Len(sys) : sys[i] = 0
  /\ sys[1] < NUM_ACTIONS

\* C7: a call whose table entry carries A_LIBERAL is permitted at filter
\* level 1 and at every other level is treated as A_DEFAULT and denied;
\* a call whose entry lacks A_LIBERAL (as set initially or by -s, -F, -T)
\* resolves to the same result at every level.
C7_LiberalOnlyAtLevel1 ==
  \A k \in 1..Len(fout) :
    InTable(fin.a.sys) =>
      IF HasBit(syscall_action(fin.c, fin.a.sys[1]), A_LIBERAL)
        THEN IF k = 1 THEN Permitted(fout[k]) ELSE fout[k] = Ret(-1)
        ELSE fout[k] = fout[1]

\* a LIBERAL call seen at the three levels, and a table with an option
C7_Witness ==
  /\ Len(fout) = MaxLevel
  /\ InTable(fin.a.sys)
  /\ HasBit(syscall_action(fin.c, fin.a.sys[1]), A_LIBERAL)
  /\ Permitted(fout[1])
  /\ ~Permitted(fout[2])
  /\ fin.c.syscall_opts # << >>

\* C8: a number outside [0, NUM_ACTIONS), taken at the full width of the
\* syscall-number register, has the effective action A_DEFAULT and is
\* denied.
C8_OutsideTableDenied ==
  \A k \in 1..Len(fout) :
    ~InTable(fin.a.sys) => ~Permitted(fout[k])


(***************************************************************************)
(* Properties of the keeper (Spec).  They read the history variable last:  *)
(* the registers and the name the latest stop presented, and the calls the *)
(* keeper made for it (box_exit adds its own).                             *)
(***************************************************************************)
HasOp(ops, op, arg) == \E i \in 1..Len(ops) : ops[i] = OpRec(op, arg)
\* the position of the first such call, 0 if there is none
FirstOp(ops, op, arg) ==
  IF HasOp(ops, op, arg)
    THEN CHOOSE i \in 1..Len(ops) :
           /\ ops[i] = OpRec(op, arg)
           /\ \A j \in 1..(i - 1) : ops[j] # OpRec(op, arg)
    ELSE 0
Statuses == SelectSeq(meta, LAMBDA e : e.key = "status")

\* what the keeper decoded at the latest stop, and the verdict on it
Decode == get_syscall_args(cfg.build, last.seen, last.r, FALSE)
Verdict == valid_syscall(cfg, last.pid, Decode.a, last.rd)
Resumed == HasOp(last.ops, "ptrace", "PTRACE_SYSCALL")
Raised == HasOp(last.ops, "meta", "status")
PostExecEntry == last.kind = "entry" /\ last.seen
PreExecEntry == last.kind = "entry" /\ ~last.seen

\* the effective action is ALLOW, or ALLOW_IF_FILENAME with a name that
\* valid_filename lets through
Accepted ==
  /\ Decode.kind = "ok"
  /\ LET e == EffectiveAct(cfg, TruncSys(Decode.a.sys))
     IN  \/ ActionOf(e) = A_YES
         \/ /\ ActionOf(e) = A_FILENAME
            /\ valid_filename(cfg.file_access, cfg.user_path_rules, last.rd) = "ok"

\* C1: after the exec, a syscall-entry stop is answered by PTRACE_SYSCALL
\* only if the call was accepted (ALLOW, or ALLOW_IF_FILENAME and the name
\* passed valid_filename); for every other entry the keeper calls box_exit
\* through err or die and issues no PTRACE_SYSCALL.
C1_ResumedOnlyIfAccepted ==
  PostExecEntry =>
    /\ Resumed => Accepted
    /\ ~Accepted => ~Resumed /\ HasOp(last.ops, "call", "box_exit")

\* a filename call accepted on its name and resumed
C1_Witness ==
  /\ PostExecEntry
  /\ Resumed
  /\ ActionOf(EffectiveAct(cfg, TruncSys(last.r.sys))) = A_FILENAME
  /\ last.rd.kind = "name"
  /\ cfg.file_access = 1

\* the keeper denied the call of the latest stop: the CPU-mode check
\* failed, or valid_syscall returned -1 (FO) or raised FA or the self-kill
Denied ==
  /\ last.kind = "entry"
  /\ \/ Decode.kind = "err"
     \/ /\ last.seen
        /\ Decode.kind = "ok"
        /\ Verdict.kind = "err" \/ Verdict = Ret(-1)
\* PTRACE_SETREGS was tried and failed
SetFailed ==
  /\ HasOp(last.ops, "ptrace", "PTRACE_SETREGS")
  /\ child.sys # AllOnes(cfg.build)

\* C2: the kernel never runs a denied call under its original number (a
\* call whose number is ~0 already has nothing to overwrite).
C2_DeniedNeverExecuted ==
  (Denied /\ ~SetFailed) =>
    \/ child.ran # last.r.sys
    \/ last.r.sys = AllOnes(cfg.build)

\* C3 as stated: when valid_syscall returns -1 at a post-exec entry, ~0 is
\* written before FO is reported and before any kill request, the FO
\* status is written and the exit code is 1.
RejectedEntry == PostExecEntry /\ Decode.kind = "ok" /\ Verdict = Ret(-1)
SetFirst ==
  LET set == FirstOp(last.ops, "ptrace", "PTRACE_SETREGS")
  IN  /\ set > 0
      /\ \A i \in 1..(set - 1) :
           /\ last.ops[i].op # "kill"
           /\ last.ops[i] # OpRec("ptrace", "PTRACE_KILL")
           /\ last.ops[i] # OpRec("meta", "status")
      /\ ~Resumed
HasKey(key) == \E i \in 1..Len(meta) : meta[i].key = key
OverTime ==
  \/ cfg.timeout # 0 /\ g.total_ms > cfg.timeout
  \/ cfg.wall_timeout # 0 /\ g.wall_ms > cfg.wall_timeout

\* C4: after a normal exit of the child, a nonzero exit code gives
\* exitcode:N and status RE with exit code 1, whatever the times; else a
\* nonzero limit that is exceeded gives status TO with exit code 1; else no
\* status is written and the exit code is 0.  The exit code is 0 in no
\* other situation.
C4_ExitVerdict ==
  /\ last.kind = "exited" =>
       /\ kpc \in {"box_exit", "exited"}
       /\ IF last.num # 0
            THEN /\ g.rc = 1
                 /\ Statuses = << MetaEntry("status", "RE", 0, TRUE) >>
                 /\ \E i \in 1..Len(meta) : meta[i] = MetaEntry("exitcode", "", last.num, TRUE)
          ELSE IF OverTime
            THEN g.rc = 1 /\ Statuses = << MetaEntry("status", "TO", 0, TRUE) >>
                 /\ ~HasKey("exitcode")
          ELSE g.rc = 0 /\ Statuses = << >> /\ ~HasKey("exitcode")
  /\ (kpc = "exited" /\ g.rc = 0) =>
       last.kind = "exited" /\ last.num = 0 /\ ~OverTime

\* an exit with code 0 and a CPU time equal to the limit: exit code 0
C4_Witness ==
  /\ kpc = "exited"
  /\ last.kind = "exited"
  /\ last.num = 0
  /\ cfg.timeout # 0
  /\ g.total_ms = cfg.timeout
  /\ g.rc = 0

\* C5: the k-th syscall-stop is treated as an entry iff k is odd, and
\* handling a status of any other kind leaves sys_tick, last_sys, last_act
\* and exec_seen as they were.
C5_Alternation ==
  /\ [](\A k \in 1..Len(treat) : treat[k] = IF k % 2 = 1 THEN "entry" ELSE "exit")
  /\ [][(last'.n = last.n + 1 /\ last'.kind \notin {"entry", "exit"}) =>
          /\ g'.sys_tick = g.sys_tick
          /\ g'.last_sys = g.last_sys
          /\ g'.last_act = g.last_act
          /\ g'.exec_seen = g.exec_seen]_vars

\* three syscall-stops, then a signal stop that the keeper resumed
C5_Witness ==
  /\ treat = <<"entry", "exit", "entry">>
  /\ last.kind = "signal"
  /\ Resumed
  /\ g.sys_tick = UInt(3)

\* C6 as stated: every entry seen while exec_seen is false is permitted:
\* the child is resumed and no error is raised.
C6_PreExecUnconditional ==
  PreExecEntry => Resumed /\ ~Raised

\* C6: exec_seen never returns to false and becomes true only at an entry
\* stop whose syscall number is NATIVE_NR_execve; an entry seen while it is
\* false, once get_syscall_args has read the registers and passed the
\* CPU-mode check, is resumed without error and without valid_syscall,
\* and sets exec_seen iff it is that execve; no entry seen while it is
\* true is resumed unless valid_syscall returned an action.
C6_ExecSeen ==
  /\ [](PreExecEntry /\ Decode.kind = "ok" =>
          /\ Resumed
          /\ ~Raised
          /\ g.exec_seen = (last.r.sys = ArgT(cfg.build, NATIVE_NR_execve(cfg.build))))
  /\ [](PostExecEntry /\ Resumed => Decode.kind = "ok" /\ Permitted(Verdict))
  /\ [][/\ g.exec_seen => g'.exec_seen
        /\ (~g.exec_seen /\ g'.exec_seen) =>
             /\ last'.kind = "entry"
             /\ last'.n = last.n + 1
             /\ last'.r.sys = ArgT(cfg.build, NATIVE_NR_execve(cfg.build))]_vars

\* the execve entered and left, then an entry that valid_syscall rejects
C6_Witness ==
  /\ treat = <<"entry", "exit", "entry">>
  /\ g.exec_seen
  /\ g.last_sys = ArgT(cfg.build, NATIVE_NR_execve(cfg.build))
  /\ PostExecEntry
  /\ Decode.kind = "ok"
  /\ Verdict = Ret(-1)
  /\ ~Resumed

(***************************************************************************)
(* C11: the result of resolv_filename on an absolute name                  *)
(***************************************************************************)
HasSub(s, sub) ==
  \E k \in 1..(Len(s) - Len(sub) + 1) : SubSeq(s, k, k + Len(sub) - 1) = sub

\* C11: for every absolute name, the result of resolv_filename contains no
\* "//" and no "/./" segment.
C11_NoDoubleSlashNoDot ==
  (Len(fout) >= 1 /\ At(fin.name, 0) = "/")
    => /\ ~HasSub(fout[1], <<"/", "/">>)
       /\ ~HasSub(fout[1], <<"/", ".", "/">>)

(***************************************************************************)
(* valid_filename on one name, under every file access level and every     *)
(* list of at most MaxUserRules user path rules (option -p, box.c:434-458)  *)
(***************************************************************************)
MaxUserRules == 2
FileAccessLevels == {0, 1, 2, 3, 4, 5, 9}
RulePaths ==
  { << >>, <<"/", "a", "/">>, <<"/", "a", ".", ".">>, <<"/", "e", "t", "c", "/">>,
    <<"/", "e", "t", "c", "/", "x">>, <<"a", "/", ".", ".">> }
UserRules == {[path |-> p, action |-> a] : p \in RulePaths, a \in {A_YES, A_NO}}
FileNames ==
  { << >>, <<"a">>, <<".", ".">>, <<"a", ".", ".">>, <<"a", "/", ".", ".">>,
    <<".", ".", "/", "a">>, <<"/">>, <<"/", "a">>, <<"/", "a", "/", "b">>,
    <<"/", "a", ".", ".">>, <<"/", ".", ".", "a">>, <<"/", "a", "/", ".", ".", "/", "b">>,
    <<"/", "e", "t", "c">>, <<"/", "e", "t", "c", "/", "x">>,
    <<"/", "e", "t", "c", "/", ".", ".", "/", "b">>,
    <<"/", "e", "t", "c", "/", ".", "/", ".", ".", "/", "b">>,
    <<"/", "d", "e", "v", "/", "n", "u", "l", "l">>, <<"/", "b">> }
FileReads ==
  {[kind |-> "name", name |-> n] : n \in FileNames}
    \cup {[kind |-> k, name |-> << >>] : k \in {"toolong", "eof", "error"}}

InitFilename ==
  /\ KeeperIdle
  /\ fin \in [fa : FileAccessLevels,
              rules : UNION {[1..k -> UserRules] : k \in 0..MaxUserRules},
              rd : FileReads]
  /\ fout = << >>

FilenameStep ==
  /\ fout = << >>
  /\ fout' = << valid_filename(fin.fa, fin.rules, fin.rd) >>
  /\ UNCHANGED <<kvars, fin>>

SpecFilename == InitFilename /\ [][FilenameStep]_vars

(***************************************************************************)
(* C12..C14: the decision of valid_filename                                *)
(***************************************************************************)
NameRead == fin.rd.kind = "name"
Canonical == resolv_filename(fin.rd.name)
\* the name is accepted as a file of the current directory (box.c:855)
CwdLocal ==
  /\ fin.fa >= 2
  /\ ~ \E k \in 1..Len(fin.rd.name) : fin.rd.name[k] = "/"
  /\ fin.rd.name # <<".", ".">>
ReachesRules == fin.fa \in 1..3 /\ NameRead /\ ~CwdLocal
DotDotRemains == HasSub(Canonical, <<".", ".">>)

\* C12: at the levels 1 to 3, a name that was read, is not accepted as a
\* file of the current directory and whose canonical form still contains
\* ".." is denied with FA, whatever the user rules and the built-in rules.
C12_DotDotDenied ==
  (fout # << >> /\ ReachesRules /\ DotDotRemains) => fout[1] = "FA"

\* an ALLOW user rule whose path is the canonical name itself, and FA
C12_Witness ==
  /\ fout = << "FA" >>
  /\ ReachesRules /\ DotDotRemains
  /\ Len(fin.rules) >= 1
  /\ fin.rules[1] = [path |-> Canonical, action |-> A_YES]

\* some user rule with action ALLOW matches the canonical name
UserRuleAllows ==
  \E k \in 1..Len(fin.rules) :
    fin.rules[k].action = A_YES
      /\ match_path_rule(fin.rules[k], Canonical) = A_YES

\* C13: valid_filename decides by the file access level: at level 0 every
\* call is denied with FA; at level 9 every call is permitted, whatever a
\* read of the name would give; at the levels 4 and above every name that
\* can be read is permitted; at the levels 2 and 3 a name without '/' other
\* than ".." is permitted whatever the rules; at level 1 a name is permitted
\* only if a user rule allows it.
C13_DecidesByLevel ==
  fout # << >> =>
    /\ fin.fa = 0 => fout[1] = "FA"
    /\ fin.fa = 9 => fout[1] = "ok"
    /\ (fin.fa >= 4 /\ NameRead) => fout[1] = "ok"
    /\ (fin.fa \in {2, 3} /\ NameRead /\ CwdLocal) => fout[1] = "ok"
    /\ (fin.fa = 1 /\ fout[1] = "ok") => (NameRead /\ UserRuleAllows)

\* level 2, a name of the current directory that a user rule denies, and
\* the access is permitted
C13_Witness ==
  /\ fout = << "ok" >>
  /\ fin.fa = 2 /\ NameRead /\ CwdLocal
  /\ fin.rd.name = <<"a", ".", ".">>
  /\ fin.rules = << [path |-> << >>, action |-> A_NO] >>

\* the rules of a list that match the canonical name, by position
Matching(rules) ==
  {k \in 1..Len(rules) : match_path_rule(rules[k], Canonical) # A_DEFAULT}
First(S) == CHOOSE k \in S : \A m \in S : k <= m
\* the action the order of precedence gives: the first user rule that
\* matches, else at level 3 the first built-in rule that matches
Precedence ==
  IF Matching(fin.rules) # {}
    THEN fin.rules[First(Matching(fin.rules))].action
  ELSE IF fin.fa >= 3 /\ Matching(default_path_rules) # {}
    THEN default_path_rules[First(Matching(default_path_rules))].action
  ELSE A_DEFAULT

\* the action valid_filename holds after both scans: DENY from the start,
\* and no rule scanned, when ".." is left in the canonical name
Decision == IF DotDotRemains THEN A_NO ELSE Precedence

\* C14: for a name that reaches the scans of valid_filename (levels 1 to 3,
\* not a file of the current directory), the user rules are taken in the
\* order of declaration and the first one that matches decides, ALLOW or
\* DENY; the built-in rules count only when no user rule matches and the
\* level is at least 3, so that a user DENY overrides a built-in ALLOW; the
\* access is permitted if the action after both scans is ALLOW and is
\* denied with FA otherwise.
C14_RulePrecedence ==
  (fout # << >> /\ ReachesRules)
    => fout[1] = (IF Decision = A_YES THEN "ok" ELSE "FA")

\* level 3: a user DENY rule ahead of a user ALLOW rule and of the built-in
\* ALLOW rule that match the same name
C14_Witness ==
  /\ fout = << "FA" >>
  /\ fin.fa = 3 /\ NameRead
  /\ fin.rd.name = <<"/", "e", "t", "c", "/", "x">>
  /\ fin.rules = << [path |-> <<"/", "e", "t", "c", "/">>, action |-> A_NO],
                    [path |-> <<"/", "e", "t", "c", "/", "x">>, action |-> A_YES] >>
  /\ Matching(default_path_rules) # {}

(***************************************************************************)
(* Environment rules (box.c:476-609).  A rule is [var, set, val]: set is   *)
(* FALSE for a rule given without '=' (r->val == NULL, inherit) and val is *)
(* then empty.  An environment is a sequence of entries "VAR=value", each  *)
(* a sequence of characters.                                               *)
(***************************************************************************)
LIBC_FATAL_STDERR_ ==
  <<"L", "I", "B", "C", "_", "F", "A", "T", "A", "L", "_",
    "S", "T", "D", "E", "R", "R", "_">>
EnvRule(var, set, val) == [var |-> var, set |-> set, val |-> val]
default_env_rules == << EnvRule(LIBC_FATAL_STDERR_, TRUE, <<"1">>) >>

\* strncmp(env_entry, r->var, r->var_len) == 0 && env_entry[r->var_len] == '='
match_env_var(env_entry, r) ==
  /\ \A i \in 0..(Len(r.var) - 1) : At(env_entry, i) = At(r.var, i)
  /\ At(env_entry, Len(r.var)) = "="

\* the position of the first entry of env that matches r, Len(env) + 1 if none
RECURSIVE FindVar(_, _, _)
FindVar(env, r, pos) ==
  IF pos <= Len(env) /\ ~match_env_var(env[pos], r)
    THEN FindVar(env, r, pos + 1) ELSE pos

\* lines 527-536 left out: the entry already there is kept
KeepOld(env, r) == env

\* lines 527-536: env[pos] = env[--size]
RemoveOld(env, r) ==
  LET pos == FindVar(env, r, 1) IN
  IF pos <= Len(env)
    THEN SubSeq([env EXCEPT ![pos] = env[Len(env)]], 1, Len(env) - 1)
    ELSE env

apply_env_rule(env, r, environ) ==
  LET e == RemoveOld(env, r) IN
  IF r.set
    THEN IF r.val = << >> THEN e
         ELSE Append(e, r.var \o <<"=">> \o r.val)
    ELSE LET pos == FindVar(environ, r, 1) IN
         IF pos <= Len(environ) THEN Append(e, environ[pos]) ELSE e

RECURSIVE ApplyRules(_, _, _, _)
ApplyRules(env, rules, k, environ) ==
  IF k > Len(rules) THEN env
  ELSE ApplyRules(apply_env_rule(env, rules[k], environ), rules, k + 1, environ)

setup_environment(user_rules, pass_environ, environ) ==
  ApplyRules(IF pass_environ THEN environ ELSE << >>,
             default_env_rules \o user_rules, 1, environ)

\* setup_environment under every list of at most MaxEnvRules rules given
\* with -E, with and without -e, in two parent environments
MaxEnvRules == 3
EnvVars == { LIBC_FATAL_STDERR_, <<"A">>, <<"A", "B">> }
EnvVals == { << >>, <<"1">>, <<"=", "2">> }
EnvRules ==
  {EnvRule(v, TRUE, x) : v \in EnvVars, x \in EnvVals}
    \cup {EnvRule(v, FALSE, << >>) : v \in EnvVars}
Environs ==
  { << >>,
    << <<"A", "B", "=", "8">>, <<"A", "=", "9">>, LIBC_FATAL_STDERR_ \o <<"=", "0">> >> }
InitEnv ==
  /\ KeeperIdle
  /\ fin \in [rules : UNION {[1..k -> EnvRules] : k \in 0..MaxEnvRules},
              pass_environ : BOOLEAN,
              environ : Environs]
  /\ fout = << >>

EnvStep ==
  /\ fout = << >>
  /\ fout' = << setup_environment(fin.rules, fin.pass_environ, fin.environ) >>
  /\ UNCHANGED <<kvars, fin>>

SpecEnv == InitEnv /\ [][EnvStep]_vars

(***************************************************************************)
(* C15: the environment the rules build                                    *)
(***************************************************************************)
AllEnvRules == default_env_rules \o fin.rules
NoInherit == ~fin.pass_environ /\ \A k \in 1..Len(fin.rules) : fin.rules[k].set
\* the last rule that names the variable v
LastRule(v) ==
  AllEnvRules[CHOOSE k \in 1..Len(AllEnvRules) :
                /\ AllEnvRules[k].var = v
                /\ \A m \in (k + 1)..Len(AllEnvRules) : AllEnvRules[m].var # v]
NamedVars == {AllEnvRules[k].var : k \in 1..Len(AllEnvRules)}
LastWrites ==
  {v \o <<"=">> \o LastRule(v).val : v \in {w \in NamedVars : LastRule(w).val # << >>}}

\* C15: with no inherit rule and without -e, the environment built from the
\* rule LIBC_FATAL_STDERR_=1 followed by the user rules holds, for every
\* variable a rule names, exactly one entry with the value of the last rule
\* naming it, no entry if that value is empty, and nothing else.
C15_LastWriteWins ==
  (fout # << >> /\ NoInherit)
    => /\ {fout[1][k] : k \in 1..Len(fout[1])} = LastWrites
       /\ Len(fout[1]) = Cardinality(LastWrites)

\* a variable set, cleared and set again, and the built-in variable cleared
C15_Witness ==
  /\ fout # << >> /\ NoInherit
  /\ fin.rules = << EnvRule(<<"A">>, TRUE, <<"1">>),
                    EnvRule(LIBC_FATAL_STDERR_, TRUE, << >>),
                    EnvRule(<<"A">>, TRUE, <<"=", "2">>) >>
  /\ fout[1] = << <<"A", "=", "=", "2">> >>

(***************************************************************************)
(* The two places where the CPU time limit decides, each followed by       *)
(* box_exit: check_timeout at a timer tick (box.c:1075-1079) and the exit  *)
(* of the child (box.c:1091-1103), under every setting of -t, -w and -x    *)
(***************************************************************************)
TimeLimits ==
  {Cfg("K64U64", 1, 0, t, w, x, << >>, NoRules) :
     t \in 0..MaxMs, w \in 0..1, x \in 0..(MaxMs + 1)}
Loop(c) ==
  [g |-> InitG(c), meta |-> << >>, ops |-> << >>, kpc |-> "wait4",
   child |-> [st |-> "running", at |-> "none", sys |-> NoWord, ran |-> NoWord,
              insys |-> FALSE]]

InitTimeout ==
  /\ KeeperIdle
  /\ fin \in [c : TimeLimits]
  /\ fout = << >>

TimeoutTick ==
  /\ fout = << >>
  /\ \E now \in 0..MaxMs, in \in StatInputs :
       fout' = << [op |-> "tick", now |-> now, in |-> in, code |-> 0,
                   W |-> check_timeout(fin.c, Loop(fin.c), now, in)] >>
  /\ UNCHANGED <<kvars, fin>>

TimeoutExited ==
  /\ fout = << >>
  /\ \E code \in 0..1, t \in 0..(MaxMs + 1), w \in 0..MaxMs :
       fout' = << [op |-> "exited", now |-> w, in |-> [ProcDefault EXCEPT !.val = t],
                   code |-> code, W |-> Exited(fin.c, Loop(fin.c), code, t, w)] >>
  /\ UNCHANGED <<kvars, fin>>

TimeoutBoxExit ==
  /\ Len(fout) = 1
  /\ fout[1].W.kpc = "box_exit"
  /\ \E in \in (IF fout[1].W.g.box_pid > 0 THEN ProcInputs ELSE {ProcDefault}) :
       fout' = Append(fout, [fout[1] EXCEPT
                               !.W = box_exit(fout[1].W, fout[1].W.g.rc, in)])
  /\ UNCHANGED <<kvars, fin>>

SpecTimeout ==
  InitTimeout /\ [][TimeoutTick \/ TimeoutExited \/ TimeoutBoxExit]_vars

(***************************************************************************)
(* C16: the CPU time limit and its grace                                   *)
(***************************************************************************)
Wrote(W, key, val) ==
  \E k \in 1..Len(W.meta) : W.meta[k].key = key /\ W.meta[k].val = val
WroteNum(W, key, num) ==
  \E k \in 1..Len(W.meta) : W.meta[k].key = key /\ W.meta[k].num = num
WroteKey(W, key) == \E k \in 1..Len(W.meta) : W.meta[k].key = key
WallOver(c, ms) == c.wall_timeout # 0 /\ ms > c.wall_timeout
\* total_ms lies in (timeout, extra_timeout]
InGrace(c, ms) == c.timeout # 0 /\ ms > c.timeout /\ ms <= c.extra_timeout

\* C16: check_timeout ends the run with status TO for CPU time only when
\* the CPU time read is greater than timeout and greater than
\* extra_timeout; and a child that exits by itself with code 0 and a
\* total_ms in (timeout, extra_timeout] is reported with status TO, with
\* its true time, and box_exit then leaves without any kill and without
\* killed:1.
C16_TimeoutGrace ==
  \A k \in 1..Len(fout) :
    LET e == fout[k] IN
    /\ (e.op = "tick" /\ Wrote(e.W, "status", "TO") /\ ~WallOver(fin.c, e.now))
         => /\ fin.c.timeout # 0
            /\ e.in.val > fin.c.timeout
            /\ e.in.val > fin.c.extra_timeout
    /\ (e.op = "exited" /\ e.code = 0 /\ InGrace(fin.c, e.in.val))
         => /\ Wrote(e.W, "status", "TO")
            /\ WroteNum(e.W, "time", e.in.val)
            /\ ~WroteKey(e.W, "killed")
            /\ k = 2 => /\ e.W.kpc = "exited"
                        /\ e.W.g.rc = 1
                        /\ \A j \in 1..Len(e.W.ops) :
                             e.W.ops[j].op \notin {"ptrace", "kill"}

\* timeout 1 and extra_timeout 2: a tick that reads 2 ms lets the child
\* run, and the child that exits after 2 ms is reported TO with time 2
C16_Witness ==
  /\ Len(fout) = 2
  /\ fout[2].op = "exited" /\ fout[2].code = 0
  /\ fin.c.timeout = 1 /\ fin.c.extra_timeout = 2
  /\ fout[2].in.val = 2
  /\ Wrote(fout[2].W, "status", "TO")
  /\ fout[2].W.kpc = "exited"

(***************************************************************************)
(* C17: mem_peak_kb                                                        *)
(***************************************************************************)
\* the operations the step adds to the record: box_exit extends the record
\* of the stop that led to it, a stop starts a new one
StepOps ==
  IF kpc = "box_exit" THEN SubSeq(last'.ops, Len(last.ops) + 1, Len(last'.ops))
  ELSE IF last'.n = last.n + 1 THEN last'.ops
  ELSE << >>
\* the step called sample_mem_peak, which read the VmPeak value v
Sampled(v) ==
  \E k \in 1..Len(StepOps) : StepOps[k] = OpRec("VmPeak", ToString(v))

\* C17: no step of the keeper lowers mem_peak_kb; a step that calls
\* sample_mem_peak and reads VmPeak leaves it equal to the maximum of its
\* value before and the value read; a step without such a call leaves it
\* as it is.
C17_PeakNeverDecreases ==
  [][/\ g'.mem_peak_kb >= g.mem_peak_kb
     /\ \A v \in 0..(MaxPeak + 1) :
          Sampled(v) => g'.mem_peak_kb = Max(g.mem_peak_kb, v)
     /\ (\A v \in 0..(MaxPeak + 1) : ~Sampled(v))
          => g'.mem_peak_kb = g.mem_peak_kb]_vars

\* a stop whose sample read 0 after an earlier sample had read MaxPeak:
\* the peak is kept
C17_Witness ==
  /\ g.mem_peak_kb = MaxPeak
  /\ \E k \in 1..Len(last.ops) : last.ops[k] = OpRec("VmPeak", "0")
  /\ \A k \in 1..Len(last.ops) : last.ops[k].op = "VmPeak" => last.ops[k].arg = "0"

(***************************************************************************)
(* The keeper under fair scheduling: the keeper process and the kernel     *)
(* each take their next step when one is possible.                         *)
(***************************************************************************)
SpecFair == Spec /\ WF_vars(Next)

(***************************************************************************)
(* C18: cancellation                                                       *)
(***************************************************************************)
\* box_exit has been called with the child not reaped
FatalWithChild == kpc = "box_exit" /\ g.box_pid > 0
OpsAt(op, arg) == {k \in 1..Len(last.ops) : last.ops[k] = OpRec(op, arg)}
\* the three kill requests were issued, each once, in the order of box_exit
KillsInOrder ==
  \E i \in OpsAt("ptrace", "PTRACE_KILL"), j \in OpsAt("kill", "group"),
     k \in OpsAt("kill", "pid") : i < j /\ j < k
\* final_stats has run after killed:1 was written
StatsAfterKilled ==
  \E i, j \in 1..Len(meta) :
    i < j /\ meta[i].key = "killed" /\ meta[j].key = "time"

\* C18: whenever box_exit is called with the child not reaped, the keeper
\* eventually has issued the trace-kill, the kill of the process group and
\* the kill of the child in that order, has reaped the child, has written
\* the final statistics and has exited.
C18_Cancellation ==
  FatalWithChild ~>
    (kpc = "exited" /\ child.st = "reaped" /\ KillsInOrder /\ StatsAfterKilled)

(***************************************************************************)
(* C19: kill and tgkill                                                    *)
(***************************************************************************)
\* the latest stop is a post-exec entry of kill or tgkill
KillEntry ==
  /\ PostExecEntry
  /\ Decode.kind = "ok"
  /\ TruncSys(Decode.a.sys) \in {UInt(NR(cfg.build, "kill")), UInt(NR(cfg.build, "tgkill"))}
IsTgkill == TruncSys(Decode.a.sys) = UInt(NR(cfg.build, "tgkill"))
ChildPid == ArgT(cfg.build, last.pid)
SelfAimed ==
  /\ Decode.a.arg1 = ChildPid
  /\ IsTgkill => Decode.a.arg2 = ChildPid
SigArg == IF IsTgkill THEN Decode.a.arg3 ELSE Decode.a.arg2
\* exitsig:<signal argument> is written and the entry after it is status:SG
ExitsigThenSG ==
  \E i \in 1..(Len(meta) - 1) :
    /\ meta[i].key = "exitsig" /\ meta[i].num = ToInt(SigArg)
    /\ meta[i + 1].key = "status" /\ meta[i + 1].val = "SG"
\* the table, with the options given, leaves the call to the switch of
\* valid_syscall (box.c:903-921)
LeftToSwitch == ActionOf(EffectiveAct(cfg, TruncSys(Decode.a.sys))) = A_DEFAULT

NL == "\n"
ValueOf(e) == IF e.val # "" THEN e.val ELSE ToString(e.num)
RECURSIVE Render(_)
Render(m) ==
  IF m = << >> THEN << >>
  ELSE <<Head(m).key, ":", ValueOf(Head(m))>>
         \o (IF Head(m).nl THEN <<NL>> ELSE << >>) \o Render(Tail(m))

\* the reader: the file split into lines, each line split at its first ':'
RECURSIVE SplitLines(_, _)
SplitLines(text, line) ==
  IF text = << >> THEN (IF line = << >> THEN << >> ELSE <<line>>)
  ELSE IF Head(text) = NL THEN <<line>> \o SplitLines(Tail(text), << >>)
  ELSE SplitLines(Tail(text), Append(line, Head(text)))
RECURSIVE BeforeColon(_)
BeforeColon(line) ==
  IF line = << >> \/ Head(line) = ":" THEN << >>
  ELSE <<Head(line)>> \o BeforeColon(Tail(line))
ParsedKeys ==
  LET lines == SplitLines(Render(meta), << >>)
  IN  [i \in 1..Len(lines) |-> BeforeColon(lines[i])]
WrittenKeys == [i \in 1..Len(meta) |-> <<meta[i].key>>]

\* C20: at every point of every run each entry of the meta file is one
\* line key:value ended by a newline: the file read back line by line, each
\* line split at its first ':', gives the keys written, in the order
\* written.
C20_MetaRoundTrip ==
  /\ \A i \in 1..Len(meta) : meta[i].nl
  /\ ParsedKeys = WrittenKeys

(***************************************************************************)
(* SIGINT while the keeper is already leaving.  The handler installed at   *)
(* box.c:1055-1058 stays in force inside err, die and box_exit; it runs    *)
(* once (SIGINT is blocked while it runs, and it does not return).  Here   *)
(* it interrupts box_exit before its first call (kpc "box_exit") or in     *)
(* its wait4, after killed:1 was written (kpc "reap").                     *)
(***************************************************************************)
SignalIntInExit ==
  /\ kpc \in {"box_exit", "reap"}
  /\ g.box_pid > 0
  /\ last.kind # "int"
  /\ Leave(err(meta_printf(Here, "exitsig", "", SIGINT, TRUE), "SG"), "int")

\* the keeper with a time limit, so that every branch of its loop is taken
IntConfigs == {Cfg("K64U64", 1, 0, 1, 1, 2, << >>, NoRules)}
InitInt == Init /\ cfg \in IntConfigs
NextInt == Next \/ SignalIntInExit
SpecInt == InitInt /\ [][NextInt]_vars

(***************************************************************************)
(* C21: killed:1                                                           *)
(***************************************************************************)
KilledEntries == SelectSeq(meta, LAMBDA e : e.key = "killed")

\* C21: killed:1 is in the meta file only when box_exit ran with the child
\* not yet seen to exit (box_pid > 0), it is there whenever the keeper has
\* left through such a box_exit, it is never there after wait4 reported the
\* exit or the death of the child, and it is there at most once.
C21_KilledOnce ==
  /\ KilledEntries # << >> => g.box_pid > 0
  /\ (kpc = "exited" /\ g.box_pid > 0) => KilledEntries # << >>
  /\ g.box_pid = 0 => KilledEntries = << >>
  /\ Len(KilledEntries) <= 1

(***************************************************************************)
(* C22: the CPU mode of a syscall entry on a 64-bit kernel                 *)
(***************************************************************************)
\* the registers of the latest entry, read by PTRACE_GETREGS on a 64-bit
\* kernel
Entry64 == last.kind = "entry" /\ Kernel64(cfg.build) /\ last.r.ok
Mode32 == last.r.cs = CS_32
OpcodeRead == last.r.cs = CS_64 /\ last.r.rd = "ok"
Mode64 == OpcodeRead /\ last.r.instr = INSTR_SYSCALL
Int80In64 == OpcodeRead /\ last.r.instr = INSTR_INT80
OtherOpcode == OpcodeRead /\ last.r.instr \notin {INSTR_SYSCALL, INSTR_INT80}
OtherSegment == last.r.cs \notin {CS_32, CS_64}
\* the 64-bit build wants 64-bit mode always, the mixed build 64-bit mode
\* before the exec and 32-bit mode after it
Wants64 == cfg.build = "K64U64" \/ ~last.seen
FirstStatus(s) == Statuses # << >> /\ Statuses[1].val = s

\* C22: on a 64-bit kernel a syscall entry is resumed only in the mode the
\* build accepts: 64-bit mode (code segment 0x33, SYSCALL opcode) in the
\* 64-bit build at all times and in the mixed build before the exec, 32-bit
\* mode (code segment 0x23) in the mixed build after it.  An entry in the
\* other mode and an INT 0x80 in 64-bit mode are rejected with FO, another
\* opcode and another code segment with XX; none of them is resumed.
C22_ModeCheck ==
  Entry64 =>
    /\ Resumed => IF Wants64 THEN Mode64 ELSE Mode32
    /\ ((Wants64 /\ Mode32) \/ (~Wants64 /\ Mode64) \/ Int80In64)
         => FirstStatus("FO") /\ ~Resumed
    /\ (OtherOpcode \/ OtherSegment) => FirstStatus("XX") /\ ~Resumed

\* the mixed build after the exec: an entry in 64-bit mode, rejected with FO
C22_Witness ==
  /\ Entry64 /\ cfg.build = "K64U32" /\ last.seen
  /\ Mode64
  /\ FirstStatus("FO") /\ ~Resumed
  /\ kpc = "exited"

(***************************************************************************)
(* The inside process (box_inside, box.c:1218-1275) and the keeper that    *)
(* waits for it, without syscall filtering or with PTRACE_TRACEME failing, *)
(* so that the first status wait4 reports is the exit of the child.  o     *)
(* says which steps the options ask for, fail which OS call fails (at most *)
(* one).  Both processes write the meta file through their own copy of the *)
(* stdio buffer, flushed by meta_close: the file holds what the inside     *)
(* process wrote, then what the keeper wrote.                              *)
(***************************************************************************)
InsideSteps ==
  <<"chdir", "stdin", "stdout", "stderr", "RLIMIT_AS", "RLIMIT_STACK",
    "RLIMIT_NOFILE", "PTRACE_TRACEME", "execve">>
Asked(o, step) ==
  CASE step = "chdir" -> o.set_cwd
    [] step = "stdin" -> o.redir_stdin
    [] step = "stdout" -> o.redir_stdout
    [] step = "stderr" -> o.redir_stderr
    [] step = "RLIMIT_AS" -> o.memory_limit
    [] step = "PTRACE_TRACEME" -> o.filter_syscalls
    [] OTHER -> TRUE

\* the first step that is asked for and fails, "none" if the execve succeeds
RECURSIVE FirstFailure(_, _, _)
FirstFailure(o, fail, k) ==
  IF k > Len(InsideSteps) THEN "none"
  ELSE IF Asked(o, InsideSteps[k]) /\ fail = InsideSteps[k] THEN InsideSteps[k]
  ELSE FirstFailure(o, fail, k + 1)

\* the working state of the inside process: fork returned 0
InsideLoop(c) == [Loop(c) EXCEPT !.g.box_pid = 0, !.g.is_ptraced = 0]
box_inside(c, o, fail) ==
  IF FirstFailure(o, fail, 1) = "none" THEN InsideLoop(c)
  ELSE box_exit(die(InsideLoop(c)), 2, ProcDefault)

InsideOpts ==
  [set_cwd : BOOLEAN, redir_stdin : BOOLEAN, redir_stdout : BOOLEAN,
   redir_stderr : BOOLEAN, memory_limit : BOOLEAN, filter_syscalls : BOOLEAN]
InitInside ==
  /\ KeeperIdle
  /\ fin \in {i \in [o : InsideOpts, fail : {InsideSteps[k] : k \in 1..Len(InsideSteps)} \cup {"none"}] :
                i.o.filter_syscalls => i.fail = "PTRACE_TRACEME"}
  /\ fout = << >>

InsideConfig == Cfg("K64U64", IF fin.o.filter_syscalls THEN 1 ELSE 0, 0, 0, 0, 0, << >>, NoRules)

\* the inside process up to its execve or its exit; the program, once
\* started, exits with a code of its own
InsideRun ==
  /\ fout = << >>
  /\ LET W == box_inside(InsideConfig, fin.o, fin.fail) IN
     \E code \in (IF W.kpc = "exited" THEN {W.g.rc} ELSE 0..1) :
       fout' = << [who |-> "inside", died |-> W.kpc = "exited", code |-> code,
                   W |-> W, file |-> W.meta] >>
  /\ UNCHANGED <<kvars, fin>>

\* the keeper: wait4 reports the exit of the child (box.c:1091-1111), then
\* box_exit
InsideReaped ==
  /\ Len(fout) = 1
  /\ LET W1 == Exited(InsideConfig, Loop(InsideConfig), fout[1].code, 1, 1)
         W == box_exit(W1, W1.g.rc, ProcDefault)
     IN  fout' = Append(fout, [who |-> "keeper", died |-> fout[1].died,
                               code |-> W.g.rc, W |-> W,
                               file |-> fout[1].file \o W.meta])
  /\ UNCHANGED <<kvars, fin>>

SpecInside == InitInside /\ [][InsideRun \/ InsideReaped]_vars

(***************************************************************************)
(* C23: errors of the inside process                                       *)
(***************************************************************************)
FileStatuses(file) == SelectSeq(file, LAMBDA e : e.key = "status")
XXWithMessage(file) ==
  \E k \in 1..(Len(file) - 1) :
    /\ file[k].key = "status" /\ file[k].val = "XX"
    /\ file[k + 1].key = "message"

\* C23: when a step of the inside process fails before the exec, the meta
\* file of the finished run carries status XX with a message, and the exit
\* code of the sandbox is 2.
C23_InsideErrorIsXX ==
  (Len(fout) = 2 /\ fout[2].died)
    => /\ XXWithMessage(fout[2].file)
       /\ fout[2].code = 2

(***************************************************************************)
(* C24: the pairing of syscall entry and exit                              *)
(***************************************************************************)
\* the latest stop is a syscall exit whose registers were read; last_act
\* and last_sys are those the preceding entry left
ExitStop == last.kind = "exit" /\ last.r.ok
NoReturn == HasBit(g.last_act, A_NO_RETVAL)

\* C24: at a syscall-exit stop whose remembered action lacks NO_RETURN the
\* child is resumed only if the syscall number of the exit equals last_sys,
\* and an exit with another number ends the run with status XX; when the
\* remembered action has NO_RETURN, an exit whose number reads ~0 is
\* accepted and the child resumed.
C24_EntryExitPairing ==
  ExitStop =>
    /\ (~NoReturn /\ Resumed) => last.r.sys = g.last_sys
    /\ (~NoReturn /\ last.r.sys # g.last_sys) => FirstStatus("XX") /\ ~Resumed
    /\ (NoReturn /\ last.r.sys = AllOnes(cfg.build)) => Resumed /\ Statuses = << >>

\* an exit that reports sysinfo after the entry of another call: XX
C24_Witness ==
  /\ ExitStop /\ ~NoReturn
  /\ last.r.sys = ArgT(cfg.build, NR(cfg.build, "sysinfo"))
  /\ g.last_sys # last.r.sys
  /\ last.seen
  /\ FirstStatus("XX") /\ ~Resumed

(***************************************************************************)
(* C25: the memory sample at the entry of exit and exit_group              *)
(***************************************************************************)
\* the latest stop is a post-exec entry that valid_syscall permits with an
\* action that carries SAMPLE_MEM
SampleEntry ==
  /\ PostExecEntry
  /\ Decode.kind = "ok"
  /\ Verdict.kind = "ret" /\ Verdict.act >= 0
  /\ HasBit(Verdict.act, A_SAMPLE_MEM)
PeakReads == {k \in 1..Len(last.ops) : last.ops[k].op = "VmPeak"}
\* the sample was called and has read VmPeak before the resume request
SampleThenResume ==
  /\ FirstOp(last.ops, "call", "sample_mem_peak") > 0
  /\ \E k \in PeakReads :
       /\ FirstOp(last.ops, "call", "sample_mem_peak") < k
       /\ k < FirstOp(last.ops, "ptrace", "PTRACE_SYSCALL")
\* mem_peak_kb is at least every VmPeak value read at the latest stop
PeakCovers ==
  \A k \in PeakReads, v \in 0..(MaxPeak + 1) :
    last.ops[k].arg = ToString(v) => g.mem_peak_kb >= v
\* wait4 has reported the normal exit of the child and final_stats has run
ExitedNormally == last.kind = "exited"
MemReported ==
  \E k \in 1..Len(meta) : meta[k].key = "mem" /\ meta[k].num = g.mem_peak_kb * 1024

\* C25: at a permitted post-exec entry of a SAMPLE_MEM syscall the child is
\* resumed only after sample_mem_peak has read VmPeak (a sample that fails
\* ends the run instead), mem_peak_kb then covers the value read, no later
\* step lowers it, and the mem entry written after a normal exit is
\* mem_peak_kb in bytes: it is at least the VmPeak read at the last exit
\* entry.
SampleInOrder ==
  /\ SampleEntry =>
       /\ Resumed => SampleThenResume
       /\ ~Resumed => FirstStatus("XX")
       /\ PeakCovers
  /\ ExitedNormally => MemReported
C25_SampleBeforeExit ==
  /\ []SampleInOrder
  /\ [][g'.mem_peak_kb >= g.mem_peak_kb]_vars

\* the entry of exit sampled MaxPeak and was resumed; the child exited
C25_Witness ==
  /\ ExitedNormally /\ last.seen
  /\ treat = <<"entry", "exit", "entry">>
  /\ g.last_sys = ArgT(cfg.build, NR(cfg.build, "exit"))
  /\ g.mem_peak_kb = MaxPeak
  /\ WroteNum([meta |-> meta], "mem", MaxPeak * 1024)

(***************************************************************************)
(* The head of the keeper's loop (box.c:1071-1084) step by step, with a    *)
(* child that neither exits nor stops: the test of timer_tick, the call of *)
(* check_timeout, the clearing of timer_tick and wait4, and the alarm      *)
(* handler, which can run between any two of them.  fin is the clock: the  *)
(* wall time and the CPU time of the child, which never go back.  The      *)
(* alarm is armed before the loop (box.c:1068) and by every run of the     *)
(* handler (box.c:929).                                                    *)
(***************************************************************************)
AlarmConfigs ==
  {Cfg("K64U64", 1, 0, l[1], l[2], l[3], << >>, NoRules) :
     l \in {<<1, 0, 0>>, <<0, 1, 0>>, <<1, 1, 2>>, <<1, 0, 2>>}}
LoopHead == {"test", "check", "clear", "wait4"}

InitAlarm ==
  /\ cfg \in AlarmConfigs
  /\ g = InitG(cfg)
  /\ kpc = "test"
  /\ meta = << >>
  /\ child = Loop(cfg).child
  /\ last = [n |-> 0, kind |-> "none", seen |-> FALSE, pid |-> BoxPid,
             r |-> NoRegs, rd |-> NoName, num |-> 0, ops |-> << >>]
  /\ treat = << >>
  /\ fin = [wall |-> 0, cpu |-> 0]
  /\ fout = << >>

\* if (timer_tick) (box.c:1075)
LoopTest ==
  /\ kpc = "test"
  /\ kpc' = IF g.timer_tick # 0 THEN "check" ELSE "wait4"
  /\ UNCHANGED <<cfg, g, meta, child, last, treat, fin, fout>>

\* the reads of /proc/<pid>/stat when the CPU time is ms: a read that
\* succeeds yields ms
StatReads(ms) ==
  {[open_ok |-> o, read |-> "ok", val |-> ms] : o \in BOOLEAN}
    \cup {[open_ok |-> TRUE, read |-> r, val |-> 0] : r \in {"long", "syntax"}}

\* check_timeout() (box.c:1077) on the clock as it stands
LoopCheck ==
  /\ kpc = "check"
  /\ \E in \in (IF cfg.timeout # 0 THEN StatReads(fin.cpu) ELSE {ProcDefault}) :
       Leave(check_timeout(cfg, [Here EXCEPT !.kpc = "clear"], fin.wall, in), "tick")

\* timer_tick = 0 (box.c:1078), then wait4 (box.c:1080), which blocks
LoopClear ==
  /\ kpc = "clear"
  /\ g' = [g EXCEPT !.timer_tick = 0]
  /\ kpc' = "wait4"
  /\ UNCHANGED <<cfg, meta, child, last, treat, fin, fout>>

\* SIGALRM: signal_alarm (box.c:924-930) sets timer_tick and arms the next
\* alarm; a wait4 it interrupts fails with EINTR and the loop starts over
\* (box.c:1082-1083).  A second has passed on the wall clock, and the child
\* may have used it.
AlarmFire ==
  /\ kpc \in LoopHead
  /\ g' = [g EXCEPT !.timer_tick = 1]
  /\ kpc' = IF kpc = "wait4" THEN "test" ELSE kpc
  /\ \E used \in 0..1 :
       fin' = [wall |-> IF fin.wall < MaxMs THEN fin.wall + 1 ELSE fin.wall,
               cpu |-> IF fin.cpu < MaxMs THEN fin.cpu + used ELSE fin.cpu]
  /\ UNCHANGED <<cfg, meta, child, last, treat, fout>>

KeeperAlarmStep ==
  LoopTest \/ LoopCheck \/ LoopClear \/ BoxExit \/ KeeperOverflow \/ BoxExitReap
NextAlarm ==
  \/ LoopTest
  \/ LoopCheck
  \/ LoopClear
  \/ AlarmFire
  \/ BoxExit
  \/ KeeperOverflow
  \/ KernelKill
  \/ BoxExitReap
\* the alarm is delivered, the keeper runs, the kernel acts on the kills
SpecAlarm ==
  /\ InitAlarm /\ [][NextAlarm]_vars
  /\ WF_vars(AlarmFire) /\ WF_vars(KeeperAlarmStep) /\ WF_vars(KernelKill)

(***************************************************************************)
(* C26: liveness of the time limit                                         *)
(***************************************************************************)
\* the clock is above the kill threshold of check_timeout
AboveThreshold ==
  /\ kpc \in LoopHead
  /\ \/ WallOver(cfg, fin.wall)
     \/ cfg.timeout # 0 /\ fin.cpu > cfg.timeout /\ fin.cpu > cfg.extra_timeout
\* check_timeout has run above the threshold and has ended the loop
CheckEnded == kpc \notin LoopHead /\ HasKey("status")
ReportedTO == FirstStatus("TO") /\ kpc = "exited" /\ g.rc = 1

\* the alarm is never lost for ever: above the threshold check_timeout is run
AlarmNotSuppressed == AboveThreshold ~> CheckEnded

\* C26: when the child neither exits nor stops and the clock is above the
\* kill threshold, the keeper eventually reports TO and exits with code 1.
C26_TimeoutLiveness == AboveThreshold ~> ReportedTO

(***************************************************************************)
(* The reader of valid_filename (box.c:827-849) with read_user_mem         *)
(* (box.c:626-641), one turn of the do-while loop per step.  PageSize      *)
(* stands for PAGE_SIZE and BufSize for sizeof(namebuf), both 4096 in the  *)
(* program.  The child's memory: the pages below fin.mapped are mapped;    *)
(* from the address fin.addr on there are fin.len bytes other than NUL,    *)
(* then a NUL.  fin.open_ok: /proc/<pid>/mem can be opened; fin.fault:     *)
(* what read returns at an address that is not mapped (-1, or 0 when the   *)
(* child has no memory left).  fout holds the state of the loop.           *)
(***************************************************************************)
PageSize == 4
BufSize == 4
MaxPages == 3

PageOf(a) == a \div PageSize
Mapped(a) == PageOf(a) < fin.mapped
\* the byte of the child at address a
ByteAt(a) ==
  IF a < fin.addr + fin.len THEN 1 + (a % 3)
  ELSE IF a = fin.addr + fin.len THEN 0
  ELSE 1

\* the length asked for, without the limit of the page (line 835)
read_len_unpaged(addr, end) == BufSize - end

\* the length of a read request (box.c:833-836)
read_len(addr, end) ==
  LET remains == PageSize - (addr % PageSize)
      l == BufSize - end
  IN  IF l > remains THEN remains ELSE l

\* read_user_mem(addr, buf, len): -2 stands for the die of a failed open;
\* a read returns the bytes up to the first address that is not mapped
RECURSIVE MappedRun(_, _)
MappedRun(a, len) ==
  IF len = 0 \/ ~Mapped(a) THEN << >>
  ELSE <<ByteAt(a)>> \o MappedRun(a + 1, len - 1)
read_user_mem(addr, len) ==
  IF ~fin.open_ok THEN [ret |-> -2, bytes |-> << >>]
  ELSE IF MappedRun(addr, len) = << >> THEN [ret |-> fin.fault, bytes |-> << >>]
  ELSE [ret |-> Len(MappedRun(addr, len)), bytes |-> MappedRun(addr, len)]

ReaderInputs ==
  [addr : 0..(PageSize - 1), len : 0..(2 * PageSize), mapped : 0..MaxPages,
   open_ok : BOOLEAN, fault : {-1, 0}]
ReaderStart ==
  [pc |-> "loop", p |-> 0, namebuf |-> << >>, addr |-> fin.addr, reads |-> << >>]

InitReader ==
  /\ KeeperIdle
  /\ fin \in ReaderInputs
  /\ fout = <<ReaderStart>>

\* while (*p++) on the bytes stored (box.c:849)
TestByte(R) ==
  IF R.namebuf[R.p + 1] # 0 THEN [R EXCEPT !.p = @ + 1]
  ELSE [R EXCEPT !.p = @ + 1, !.pc = "ok"]

\* one turn of the loop (box.c:830-849); end is Len(namebuf)
ReaderTurn(R) ==
  IF R.p >= Len(R.namebuf) THEN
    LET l == read_len(R.addr, Len(R.namebuf))
        r == read_user_mem(R.addr, l)
        R1 == [R EXCEPT !.reads = Append(@, [addr |-> R.addr, len |-> l])]
    IN  IF l = 0 THEN [R EXCEPT !.pc = "FA toolong"]
        ELSE IF r.ret < 0 THEN [R1 EXCEPT !.pc = "XX"]
        ELSE IF r.ret = 0 THEN [R1 EXCEPT !.pc = "FA nomem"]
        ELSE TestByte([R1 EXCEPT !.namebuf = @ \o r.bytes, !.addr = @ + r.ret])
  ELSE TestByte(R)

ReaderStep ==
  /\ fout[1].pc = "loop"
  /\ fout' = <<ReaderTurn(fout[1])>>
  /\ UNCHANGED <<kvars, fin>>

\* the keeper runs: the loop takes its next turn
SpecReader == InitReader /\ [][ReaderStep]_vars /\ WF_vars(ReaderStep)

(***************************************************************************)
(* C27: the paged reader of file names                                     *)
(***************************************************************************)
Rd == fout[1]
NulAt == fin.addr + fin.len
\* the name and its NUL lie in mapped memory
NameMapped == Mapped(NulAt)
NameFits == fin.len + 1 <= BufSize
OnePage(rq) == rq.len >= 1 /\ PageOf(rq.addr) = PageOf(rq.addr + rq.len - 1)
Stored(k) == Rd.namebuf[k] = ByteAt(fin.addr + k - 1)
ReaderSafe ==
  /\ \A k \in 1..Len(Rd.reads) :
       /\ OnePage(Rd.reads[k])
       /\ PageOf(Rd.reads[k].addr) <= PageOf(NulAt)
  /\ Len(Rd.namebuf) <= BufSize
  /\ Rd.p <= Len(Rd.namebuf)
  /\ \A k \in 1..Len(Rd.namebuf) : Stored(k)
ReaderResult ==
  Rd.pc # "loop" =>
    /\ Rd.pc = "ok" => Rd.p = fin.len + 1 /\ NameFits
    /\ (fin.open_ok /\ NameMapped) => Rd.pc = (IF NameFits THEN "ok" ELSE "FA toolong")
    /\ Rd.pc = "XX" <=> \/ ~fin.open_ok
                        \/ fin.fault < 0 /\ ~NameMapped /\ ~Mapped(fin.addr + BufSize - 1)
    /\ Rd.pc \in {"ok", "FA toolong", "FA nomem", "XX"}
\* a turn that reads has seen no NUL among the bytes stored, and every turn
\* that does not end the loop moves p on
ReaderTurnOk ==
  /\ Len(Rd.reads') > Len(Rd.reads) =>
       /\ Rd.p = Len(Rd.namebuf)
       /\ \A k \in 1..Len(Rd.namebuf) : Rd.namebuf[k] # 0
  /\ Rd.pc' = "loop" => Rd.p' = Rd.p + 1

\* C27: every read request lies within one page of the child, no page
\* beyond the one that holds the NUL of the name is touched, no read is
\* issued once a NUL is among the bytes stored, never more than BufSize
\* bytes are stored, and the loop ends: for a name in mapped memory it
\* accepts iff the name and its NUL fit in BufSize bytes and fails with FA
\* otherwise; only a failing read_user_mem ends it with XX.
C27_PagedReader ==
  /\ [](ReaderSafe /\ ReaderResult)
  /\ [][ReaderTurnOk]_vars
  /\ <>(Rd.pc # "loop")

\* a name whose NUL is the last byte of the last mapped page is accepted
\* after one read request
C27_Witness ==
  /\ Rd.pc = "ok"
  /\ fin.addr = 1 /\ fin.len >= 1
  /\ (NulAt + 1) % PageSize = 0
  /\ Mapped(NulAt) /\ ~Mapped(NulAt + 1)
  /\ Len(Rd.reads) = 1

(***************************************************************************)
(* The resource limits of box_inside (box.c:1250-1259).  memory_limit and  *)
(* stack_limit are ints (box.c:52-53), rlim_t is the unsigned 64-bit type  *)
(* of the 64-bit build: a word of four limbs.                              *)
(***************************************************************************)
KiB == 1024
\* the width of an int
IntBits == 32
\* (rlim_t)x * 1024 for an int 0 <= x < 2^31: the product in 64 bits
RlimTimesKiB(x) ==
  LET lo == (x % LimbMod) * KiB
      hi == (x \div LimbMod) * KiB + (lo \div LimbMod)
  IN  <<lo % LimbMod, hi % LimbMod, hi \div LimbMod, 0>>
\* (rlim_t)i for the int whose 32 bits are the limbs w: the sign is extended
SignExtend(w) ==
  LET s == IF w[2] >= LimbMod \div 2 THEN LimbMod - 1 ELSE 0
  IN  <<w[1], w[2], s, s>>
\* the product fits an int
FitsInt(x) == RlimTimesKiB(x)[3] = 0 /\ RlimTimesKiB(x)[2] < LimbMod \div 2

\* x * 1024 in int arithmetic, converted to rlim_t (line 1252).  When the
\* product does not fit an int the multiplication overflows: the build
\* either keeps the low 32 bits or multiplies in a 64-bit register.
IntTimesKiB(x) ==
  IF FitsInt(x) THEN {RlimTimesKiB(x)}
  ELSE {SignExtend(SubSeq(RlimTimesKiB(x), 1, 2)), RlimTimesKiB(x)}

\* the value installed as RLIMIT_AS (box.c:1250-1255); << >>: none
rlimit_as(memory_limit) ==
  IF memory_limit # 0 THEN IntTimesKiB(memory_limit) ELSE {<< >>}
\* the value installed as RLIMIT_STACK (box.c:1257-1259); RLIM_INFINITY is
\* ~0
rlimit_stack(stack_limit) ==
  IF stack_limit # 0 THEN RlimTimesKiB(stack_limit)
  ELSE <<LimbMod - 1, LimbMod - 1, LimbMod - 1, LimbMod - 1>>

\* the limits of the command line: powers of two and their neighbours
MaxShift == IntBits - 2
RECURSIVE Pow2(_)
Pow2(s) == IF s = 0 THEN 1 ELSE 2 * Pow2(s - 1)
LimitValues ==
  {0} \cup {Pow2(s) : s \in 0..MaxShift}
      \cup {Pow2(s) - 1 : s \in 2..MaxShift}
      \cup {Pow2(s) + Pow2(s - 1) : s \in 1..MaxShift}

InitLimits ==
  /\ KeeperIdle
  /\ fin \in [memory_limit : LimitValues, stack_limit : {0, 1, Pow2(21)}]
  /\ fout = << >>

SetLimits ==
  /\ fout = << >>
  /\ \E v \in rlimit_as(fin.memory_limit) :
       fout' = << [as |-> v, stack |-> rlimit_stack(fin.stack_limit)] >>
  /\ UNCHANGED <<kvars, fin>>

SpecLimits == InitLimits /\ [][SetLimits]_vars

(***************************************************************************)
(* C28: the address space limit                                            *)
(***************************************************************************)
\* C28: for every positive memory_limit the value installed as RLIMIT_AS
\* is memory_limit * 1024, the product without wrap-around, as the stack
\* limit is for stack_limit.
C28_MemoryLimitExact ==
  fout # << >> =>
    /\ fin.memory_limit > 0 => fout[1].as = RlimTimesKiB(fin.memory_limit)
    /\ fin.stack_limit > 0 => fout[1].stack = RlimTimesKiB(fin.stack_limit)

(***************************************************************************)
(* C29: resolv_filename and lexical path resolution                        *)
(***************************************************************************)
\* the stack of components after the component comp: "" and "." leave it,
\* ".." drops the last component (the parent of the root is the root)
Enter(stack, comp) ==
  IF comp = << >> \/ comp = <<".">> THEN stack
  ELSE IF comp = <<".", ".">>
    THEN (IF stack = << >> THEN stack ELSE SubSeq(stack, 1, Len(stack) - 1))
  ELSE Append(stack, comp)
\* the components that the path s names from the root, s read from its
\* character k on, comp being the component under way
RECURSIVE LexFrom(_, _, _, _)
LexFrom(s, k, comp, stack) ==
  IF k > Len(s) THEN Enter(stack, comp)
  ELSE IF s[k] = "/" THEN LexFrom(s, k + 1, << >>, Enter(stack, comp))
  ELSE LexFrom(s, k + 1, Append(comp, s[k]), stack)
Lexical(s) == LexFrom(s, 1, << >>, << >>)
\* the absolute path of a stack of components
RECURSIVE PathOf(_)
PathOf(stack) ==
  IF stack = << >> THEN <<"/">>
  ELSE IF Len(stack) = 1 THEN <<"/">> \o stack[1]
  ELSE PathOf(SubSeq(stack, 1, Len(stack) - 1)) \o <<"/">> \o stack[Len(stack)]

AbsoluteName == NameRead /\ At(fin.rd.name, 0) = "/"

\* C29: for every absolute name, the result of resolv_filename names the
\* location the name has under lexical resolution, and a name that the
\* rules permit is one whose lexically resolved path they permit.
C29_LexicalResolution ==
  (fout # << >> /\ AbsoluteName /\ ReachesRules) =>
    /\ Lexical(Canonical) = Lexical(fin.rd.name)
    /\ fout[1] = "ok" =>
         RulesAction(fin.fa, fin.rules, PathOf(Lexical(fin.rd.name))) = A_YES

(***************************************************************************)
(* C30: the file access levels are monotone                                *)
(***************************************************************************)
HigherLevels == {l \in FileAccessLevels : l > fin.fa}

\* C30: for fixed user rules and a fixed name, an access that
\* valid_filename permits at a level of 1 or more is permitted at every
\* higher level.
C30_LevelsMonotone ==
  (fout = << "ok" >> /\ fin.fa >= 1) =>
    \A l \in HigherLevels : valid_filename(l, fin.rules, fin.rd) = "ok"

\* level 2, a name with a '/' that only a user rule permits and that no
\* built-in rule matches: level 3 has to keep the user rule's verdict
C30_Witness ==
  /\ fout = << "ok" >>
  /\ fin.fa = 2 /\ NameRead /\ ~CwdLocal
  /\ fin.rd.name = <<"/", "a", "/", "b">>
  /\ UserRuleAllows
  /\ ScanRules(default_path_rules, 1, Canonical, A_DEFAULT) = A_DEFAULT

(***************************************************************************)
(* C31: one status, one set of statistics                                  *)
(***************************************************************************)
KeyCount(file, key) == Len(SelectSeq(file, LAMBDA e : e.key = key))
OncePerRun == {"status", "time", "time-wall", "mem"}

\* C31: whatever the inside process and the keeper write to the meta file
\* they share, the file holds at most one status entry and at most one
\* each of time, time-wall and mem; a failure of the inside process leaves
\* no second status.
C31_OneStatusOneStats ==
  \A k \in 1..Len(fout), key \in OncePerRun : KeyCount(fout[k].file, key) <= 1

(***************************************************************************)
(* C32: SIGINT at any point of the keeper                                  *)
(***************************************************************************)
\* signal_int has run: in wait4, at the top of the loop or inside box_exit
Interrupted == last.kind = "int"

\* C32: once SIGINT has been delivered to the keeper, wherever it was, the
\* report holds at most one status entry and at most one killed:1 entry,
\* and a keeper that has exited has reaped the child and exits with a
\* nonzero code.
C32_CleanInterrupt ==
  Interrupted =>
    /\ Len(Statuses) <= 1
    /\ Len(KilledEntries) <= 1
    /\ kpc = "exited" => (g.rc # 0 /\ child.st \in {"reaped", "zombie"})

(***************************************************************************)
(* C33: every stop is answered once                                        *)
(***************************************************************************)
StopKinds == {"entry", "exit", "trap", "sigstop", "signal", "fatal"}
\* the resume requests and the signals forwarded at the latest stop
Resumes == Cardinality(OpsAt("ptrace", "PTRACE_SYSCALL"))
Forwarded == {last.ops[k].arg : k \in {i \in 1..Len(last.ops) : last.ops[i].op = "forward"}}

MaxNameLen == 3
\* bytes of a name: a plain byte, ':', the newline, and the bytes "status"
ForgeBytes == {"x", ":", NL, "status"}
ForgeConfig == Cfg("K32U32", 1, 1, 0, 0, 0, << >>, NoRules)

\* the message of line 875: its text, the name between two quotes
FaMessage(name) == <<"Forbidden access to file ", "QUOTE">> \o name \o <<"QUOTE">>
\* the entries of the report, the message entry holding msg
RECURSIVE RenderMsg(_, _)
RenderMsg(m, msg) ==
  IF m = << >> THEN << >>
  ELSE <<Head(m).key, ":">>
         \o (IF Head(m).key = "message" THEN msg ELSE <<ValueOf(Head(m))>>)
         \o (IF Head(m).nl THEN <<NL>> ELSE << >>) \o RenderMsg(Tail(m), msg)
\* the run: err, box_exit with a sample that works, the child reaped
DeniedRun(name) ==
  LET W1 == box_exit(err(Loop(ForgeConfig), "FA"), 1, ProcDefault)
      W2 == final_stats(W1, 1, MaxMs)
  IN  RenderMsg(W2.meta, FaMessage(name))
KeysOf(text) ==
  LET lines == SplitLines(text, << >>)
  IN  [i \in 1..Len(lines) |-> BeforeColon(lines[i])]

InitForge ==
  /\ KeeperIdle
  /\ fin \in [a : StringsUpTo(ForgeBytes, MaxNameLen) \ {<< >>},
              b : StringsUpTo(ForgeBytes, MaxNameLen) \ {<< >>}]
  /\ fout = << >>

ForgeStep ==
  /\ fout = << >>
  /\ \A n \in {fin.a, fin.b} :
       valid_filename(ForgeConfig.file_access, NoRules, [kind |-> "name", name |-> n]) = "FA"
  /\ fout' = << KeysOf(DeniedRun(fin.a)), KeysOf(DeniedRun(fin.b)) >>
  /\ UNCHANGED <<kvars, fin>>

SpecForge == InitForge /\ [][ForgeStep]_vars

(***************************************************************************)
(* C34: the keys of the report and the bytes of a file name                *)
(***************************************************************************)
ReportKeys ==
  << <<"status">>, <<"message">>, <<"killed">>, <<"time">>, <<"time-wall">>, <<"mem">> >>

\* C34: two runs that differ only in the bytes of the name of a denied
\* file give reports with the same sequence of keys, read line by line:
\* status, message, killed, time, time-wall, mem.
C34_KeysNotForged ==
  fout # << >> => (fout[1] = fout[2] /\ fout[1] = ReportKeys)

(***************************************************************************)
(* The array setup_environment builds (box.c:571-599), slot by slot.  The  *)
(* array has a fixed number of slots; a slot holds a pointer to an entry,  *)
(* NULL, or whatever xmalloc left there.  A store outside the array is     *)
(* recorded in oob.                                                        *)
(***************************************************************************)
Ptr(s) == [slot |-> "ptr", s |-> s]
NullPtr == [slot |-> "null", s |-> << >>]
Junk == [slot |-> "junk", s |-> << >>]

\* the slots of a tight array: none for the terminating NULL
env_slots_tight(orig_size, num_rules) == orig_size + num_rules
\* line 585: xmalloc((orig_size + num_rules + 1) * sizeof(char *))
env_slots(orig_size, num_rules) == orig_size + num_rules + 1

\* env[i] = v
Store(A, i, v) ==
  IF i \in DOMAIN A.env THEN [A EXCEPT !.env[i] = v] ELSE [A EXCEPT !.oob = TRUE]

\* lines 585-595: the array after the copy of the original environment
new_env(pass_environ, environ, num_rules) ==
  LET orig_size == Len(environ)
      size == IF pass_environ THEN orig_size ELSE 0
      raw == [i \in 0..(env_slots(orig_size, num_rules) - 1) |->
                IF i < size THEN Ptr(environ[i + 1]) ELSE Junk]
  IN  Store([env |-> raw, size |-> size, oob |-> FALSE, k |-> 0], size, NullPtr)

\* lines 528-530: the first pos < size whose entry matches r, else size
RECURSIVE FindSlot(_, _, _)
FindSlot(A, r, pos) ==
  IF pos < A.size /\ ~match_env_var(A.env[pos].s, r)
    THEN FindSlot(A, r, pos + 1) ELSE pos

\* lines 524-559 on the array
apply_env_rule_slots(A, r, environ) ==
  LET pos == FindSlot(A, r, 0)
      A1 == IF pos < A.size
              THEN Store(Store([A EXCEPT !.size = @ - 1], pos, A.env[A.size - 1]),
                         A.size - 1, NullPtr)
              ELSE A
      epos == FindVar(environ, r, 1)
      found == IF r.set THEN r.val # << >> ELSE epos <= Len(environ)
      new == IF r.set THEN r.var \o <<"=">> \o r.val ELSE environ[epos]
  IN  IF ~found THEN A1
      ELSE Store(Store([A1 EXCEPT !.size = @ + 1], A1.size, Ptr(new)),
                 A1.size + 1, NullPtr)

\* lines 563-595
EnvCreate ==
  /\ fout = << >>
  /\ fout' = << new_env(fin.pass_environ, fin.environ,
                        Len(default_env_rules \o fin.rules)) >>
  /\ UNCHANGED <<kvars, fin>>

\* lines 598-599: the next rule of the list
EnvApply ==
  /\ fout # << >> /\ ~fout[1].oob
  /\ fout[1].k < Len(default_env_rules \o fin.rules)
  /\ fout' = << [apply_env_rule_slots(fout[1],
                    (default_env_rules \o fin.rules)[fout[1].k + 1], fin.environ)
                  EXCEPT !.k = @ + 1] >>
  /\ UNCHANGED <<kvars, fin>>

SpecEnvSlots == InitEnv /\ [][EnvCreate \/ EnvApply]_vars

(***************************************************************************)
(* C35: the environment array has room                                     *)
(***************************************************************************)
OrigSize == Len(fin.environ)
NumRules == Len(AllEnvRules)
\* the entries of the array as an environment
EntriesOf(A) == [i \in 1..A.size |-> A.env[i - 1].s]
\* the array is well formed after k rules
EnvArrayOk(A) ==
  /\ ~A.oob
  /\ A.size >= 0 /\ A.size <= OrigSize + A.k /\ A.size <= OrigSize + NumRules
  /\ A.size \in DOMAIN A.env
  /\ Cardinality(DOMAIN A.env) = OrigSize + NumRules + 1
  /\ A.env[A.size] = NullPtr
  /\ \A i \in 0..(A.size - 1) : A.env[i].slot = "ptr"
  /\ EntriesOf(A) =
       ApplyRules(IF fin.pass_environ THEN fin.environ ELSE << >>,
                  SubSeq(AllEnvRules, 1, A.k), 1, fin.environ)
\* one rule changes the number of entries by -1, 0 or +1
EnvOneRule ==
  (fout # << >> /\ fout' # << >> /\ fout'[1].k = fout[1].k + 1)
    => fout'[1].size - fout[1].size \in {-1, 0, 1}

\* C35: while setup_environment applies the rules, no store leaves the
\* array of orig_size + num_rules + 1 slots, the number of entries never
\* exceeds orig_size + num_rules, the entries are followed by a NULL, and
\* each rule changes the number of entries by -1, 0 or +1.
C35_EnvArrayFits ==
  /\ [](fout # << >> => EnvArrayOk(fout[1]))
  /\ [][EnvOneRule]_vars

\* every rule added an entry: the NULL sits in the last slot
C35_Witness ==
  /\ fout # << >> /\ fout[1].k = NumRules /\ NumRules = 3
  /\ fout[1].size = OrigSize + NumRules
  /\ fout[1].env[OrigSize + NumRules] = NullPtr

====
